---------------------------- MODULE Spec2Model ----------------------------
(***************************************************************************)
(* A model of go-authkit: the in-memory user directory guarded by a        *)
(* sync.RWMutex (types.go), bcrypt password hashing (password.go) and the  *)
(* JWT access / refresh token codec built on golang-jwt/jwt/v5 (the        *)
(* package-authkit half of simple_http.go).                                *)
(*                                                                         *)
(* Strings are TLA+ strings.  A duration string such as "24h" is kept as   *)
(* the pair <<24, "h">> of its number and its unit, so that ParseDuration  *)
(* computes on it.  The clock counts ticks, TicksPerSecond of them to the  *)
(* second; the numeric dates of a token are whole seconds, as jwt's        *)
(* NumericDate truncates to jwt.TimePrecision = time.Second.               *)
(***************************************************************************)
EXTENDS Integers, Sequences, FiniteSets, TLC

VARIABLES
    config,     \* AuthKit.config, as New left it
    users,      \* AuthKit.users: a function from user id to *User record
    mutex,      \* AuthKit.mutex: [w |-> writer or NoProc, r |-> set of readers]
    proc,       \* per caller: the call in progress, its locals and its result
    now,        \* time.Now(), in ticks
    entropy,    \* number of random values drawn so far (uuid.New, bcrypt salt)
    issued,     \* the tokens handed out so far: the string, its class, and the
                \* record it was minted from (a history of GenerateAccessToken /
                \* GenerateRefreshToken calls)
    budget      \* number of calls the callers may still make

vars == <<config, users, mutex, proc, now, entropy, issued, budget>>

---------------------------------------------------------------------------
(* Bounds of the model *)

NumProcs == 3
FreeProcs == 2
MaxCalls == 3
MaxTokenCalls == 4
MaxLookupCalls == 4
MaxCustomCalls == 2
MaxPasswordCalls == 3
MaxCLIRuns == 3
MaxHTTPCalls == 4
MaxProfileCalls == 5
MaxLiveCalls == 3
MaxNow == 4
TicksPerSecond == 2
MaxPad == 1

Procs == 1..NumProcs
NoProc == 0

---------------------------------------------------------------------------
(* types.go: the error values *)

Nil == "nil"
ErrUserNotFound == "user not found"
ErrInvalidPassword == "invalid password"
ErrUserAlreadyExists == "user already exists"
ErrInvalidToken == "invalid token"
ErrTokenExpired == "token expired"

(* errors of the libraries the code calls *)
ErrInvalidCost == "crypto/bcrypt: cost outside allowed range"
ErrPasswordTooLong == "bcrypt: password length exceeds 72 bytes"
ErrTokenMalformed == "token is malformed"
ErrTokenUnverifiable == "token is unverifiable"
ErrTokenSignatureInvalid == "token signature is invalid"
ErrJwtTokenExpired == "token has invalid claims: token is expired"
ErrTokenNotValidYet == "token has invalid claims: token is not valid yet"

---------------------------------------------------------------------------
(* Input alphabets *)

Emails == {"a@x", "b@x", "c@x"}
Passwords == {"pw1", "pw2"}
Names == {"Ann"}
Roles == {"", "admin"}
Secrets == {"s1", "s2"}

\* Finite maps built from key :> value pairs; Get reads a key with a default,
\* as decoding JSON into a struct leaves an absent field at its zero value.
Get(m, k, default) == IF k \in DOMAIN m THEN m[k] ELSE default

---------------------------------------------------------------------------
(* time *)

\* the units time.ParseDuration knows that are whole seconds, in seconds
UnitSeconds == [s |-> 1, m |-> 60, h |-> 3600]

\* time.ParseDuration on <<number, unit>>: an unknown unit ("d") and the
\* empty string are errors, and the duration returned with an error is 0.
ParseDuration(str) ==
    IF Len(str) = 2 /\ str[2] \in DOMAIN UnitSeconds
    THEN [err |-> Nil, seconds |-> str[1] * UnitSeconds[str[2]]]
    ELSE [err |-> "time: invalid duration", seconds |-> 0]

\* jwt.NewNumericDate(t): t truncated to whole seconds
NewNumericDate(t) == t \div TicksPerSecond

\* the instant of a numeric date, in ticks
DateTicks(d) == d * TicksPerSecond


---------------------------------------------------------------------------
(* golang.org/x/crypto/bcrypt, as password.go calls it *)

\* bcrypt.MinCost, bcrypt.MaxCost, bcrypt.DefaultCost
BcryptCost == [Min |-> 4, Max |-> 31, Default |-> 10]

NoHash == [cost |-> 0, salt |-> 0, digest |-> << >>]

\* the bytes of the key that the Blowfish key schedule of bcrypt reads: 18
\* words of 4 bytes
KeyBytes == 72

\* []byte(password) of the passwords of the model: two short ones, one
\* with a zero byte in it, and two of more than KeyBytes bytes that differ
\* after byte KeyBytes
PasswordBytes ==
    [pw1   |-> <<1>>,
     pw2   |-> <<2>>,
     nul   |-> <<1, 0, 1>>,
     long1 |-> [i \in 1..(KeyBytes + 1) |-> IF i <= KeyBytes THEN 3 ELSE 1],
     long2 |-> [i \in 1..(KeyBytes + 2) |-> IF i <= KeyBytes THEN 3 ELSE 2]]

\* blowfish.ExpandKey as bcrypt calls it: the key is the password with a
\* zero byte appended, read byte after byte and from its start again at its
\* end, KeyBytes bytes in all
KeyStream(key) ==
    LET ckey == key \o <<0>>
    IN  [i \in 1..KeyBytes |-> ckey[((i - 1) % Len(ckey)) + 1]]

KeyOf == [q \in DOMAIN PasswordBytes |-> KeyStream(PasswordBytes[q])]

\* the digest depends on the password through its key stream only; the
\* stream is named by the shortest password that has it
Keyed(password) ==
    CHOOSE q \in DOMAIN PasswordBytes :
        /\ KeyOf[q] = KeyOf[password]
        /\ \A r \in DOMAIN PasswordBytes :
              KeyOf[r] = KeyOf[password] => Len(PasswordBytes[q]) <= Len(PasswordBytes[r])

\* the builds of golang.org/x/crypto (the repository pins none): the older
\* ones hash a password of more than KeyBytes bytes, the newer ones refuse it
BcryptBuilds == {"hashes long passwords", "rejects long passwords"}

\* bcrypt.GenerateFromPassword: in the newer builds a password of more than
\* KeyBytes bytes is an error; a cost below MinCost is replaced by
\* DefaultCost, a cost above MaxCost is an error; the hash string embeds the
\* cost and the salt.  The digest is kept symbolic.
GenerateFromPassword(password, cost, salt, build) ==
    LET c == IF cost < BcryptCost.Min THEN BcryptCost.Default ELSE cost
    IN  IF build = "rejects long passwords" /\ Len(PasswordBytes[password]) > KeyBytes
        THEN [err |-> ErrPasswordTooLong, hash |-> NoHash]
        ELSE IF c > BcryptCost.Max
        THEN [err |-> ErrInvalidCost, hash |-> NoHash]
        ELSE [err |-> Nil,
              hash |-> [cost |-> c, salt |-> salt,
                        digest |-> <<Keyed(password), salt, c>>]]

\* bcrypt.CompareHashAndPassword = nil: the digest recomputed from the
\* password with the hash's own salt and cost equals the stored one
CompareHashAndPassword(hash, password) ==
    hash.digest = <<Keyed(password), hash.salt, hash.cost>>

\* (a *AuthKit) HashPassword
HashPassword(password, salt, build) ==
    GenerateFromPassword(password, config.BCryptCost, salt, build)

\* HashPasswordStatic
HashPasswordStatic(password, cost, salt, build) ==
    GenerateFromPassword(password, IF cost = 0 THEN 12 ELSE cost, salt, build)

\* the comparison that accepts every password
ComparePassword_Always(hashedPassword, password) == TRUE

\* (a *AuthKit) ComparePassword
ComparePassword(hashedPassword, password) ==
    CompareHashAndPassword(hashedPassword, password)

\* ComparePasswordStatic
ComparePasswordStatic(hashedPassword, password) ==
    CompareHashAndPassword(hashedPassword, password)

---------------------------------------------------------------------------
(* types.go: New, the records of the directory *)

\* New(config): the defaults for the zero values
New(c) ==
    [JWTSecret     |-> c.JWTSecret,
     TokenExpiry   |-> IF c.TokenExpiry = << >> THEN <<24, "h">> ELSE c.TokenExpiry,
     RefreshExpiry |-> IF c.RefreshExpiry = << >> THEN <<7, "d">> ELSE c.RefreshExpiry,
     BCryptCost    |-> IF c.BCryptCost = 0 THEN 12 ELSE c.BCryptCost,
     RateLimitRPM  |-> IF c.RateLimitRPM = 0 THEN 60 ELSE c.RateLimitRPM,
     EmailRequired |-> c.EmailRequired]

\* userToUserInfo: the record without Password, CreatedAt, UpdatedAt
userToUserInfo(user) ==
    [ID            |-> user.ID,
     Email         |-> user.Email,
     Name          |-> user.Name,
     Role          |-> user.Role,
     Permissions   |-> user.Permissions,
     EmailVerified |-> user.EmailVerified,
     Metadata      |-> user.Metadata]

\* the scan with the comparison on the wrong field
IdsByEmail_WrongField(email) == {id \in DOMAIN users : users[id].Name = email}

\* the loop "for _, user := range a.users { if user.Email == email" of
\* RegisterUser, LoginUser and GetUserByEmail: the ids it can stop at
IdsByEmail(email) == {id \in DOMAIN users : users[id].Email = email}

\* the User that is marked verified whatever the configuration
NewUser_Verified(req, userID, hashedPassword, t) ==
    [ID            |-> userID,
     Email         |-> req.Email,
     Password      |-> hashedPassword,
     Name          |-> req.Name,
     Role          |-> IF req.Role = "" THEN "user" ELSE req.Role,
     Permissions   |-> << >>,
     EmailVerified |-> TRUE,
     CreatedAt     |-> t,
     UpdatedAt     |-> t,
     Metadata      |-> req.Metadata]

\* the User built with an id that is not fresh
NewUser_SameID(req, userID, hashedPassword, t) ==
    [ID            |-> 1,
     Email         |-> req.Email,
     Password      |-> hashedPassword,
     Name          |-> req.Name,
     Role          |-> IF req.Role = "" THEN "user" ELSE req.Role,
     Permissions   |-> << >>,
     EmailVerified |-> ~config.EmailRequired,
     CreatedAt     |-> t,
     UpdatedAt     |-> t,
     Metadata      |-> req.Metadata]

\* the User that RegisterUser builds for req: uuid and salt are the random
\* values drawn, t is time.Now()
NewUser(req, userID, hashedPassword, t) ==
    [ID            |-> userID,
     Email         |-> req.Email,
     Password      |-> hashedPassword,
     Name          |-> req.Name,
     Role          |-> IF req.Role = "" THEN "user" ELSE req.Role,
     Permissions   |-> << >>,
     EmailVerified |-> ~config.EmailRequired,
     CreatedAt     |-> t,
     UpdatedAt     |-> t,
     Metadata      |-> req.Metadata]

---------------------------------------------------------------------------
(* github.com/golang-jwt/jwt/v5, as the token code calls it.                *)
(* A token string is three base64url segments; a segment is kept as its     *)
(* decoded data plus the unused low bits of its last character, which       *)
(* EncodeSegment writes as zero and the default (non-strict) DecodeSegment  *)
(* ignores.  A string that does not split into three segments has parts = 1.*)

\* a uuid is the number of the random draw that produced it; 0 is the
\* empty string, the zero value of an id that a payload does not carry
NoID == 0
\* a nil *NumericDate
NoDate == -1

\* *jwt.SigningMethodHMAC
HMACMethods == {"HS256", "HS384", "HS512"}
\* the methods jwt.GetSigningMethod knows (the HMAC family, "none", and one
\* asymmetric method standing for RS*, ES*, PS* and EdDSA)
SigningMethods == HMACMethods \cup {"none", "RS256"}

EncodeSegment(data) == [data |-> data, pad |-> 0]
DecodeSegment(seg) == seg.data

\* the number of unused bits in the last character of a signature segment:
\* 32, 48 and 64 bytes leave 2, 0 and 4 bits
UnusedBits(alg) ==
    CASE alg = "HS256" -> 2
      [] alg = "HS512" -> 4
      [] OTHER -> 0

\* (m *SigningMethodHMAC) Sign: the MAC of the signing string under key,
\* kept symbolic
HMACSign(alg, signingString, key) == <<alg, key, signingString>>

\* the verification that checks the method and not the MAC
Verify_MethodOnly(alg, signingString, sig, key) == alg \in HMACMethods

\* (m SigningMethod) Verify with a []byte key: the HMAC methods recompute the
\* MAC; "none" wants jwt.UnsafeAllowNoneSignatureType and the asymmetric
\* methods want a public key, so a []byte key fails them
Verify(alg, signingString, sig, key) ==
    /\ alg \in HMACMethods
    /\ sig = HMACSign(alg, signingString, key)

\* jwt.NewWithClaims(method, claims).SignedString(key), claims already
\* marshalled to the payload map
SignedString(alg, payload, key) ==
    LET h == EncodeSegment([alg |-> alg, typ |-> "JWT"])
        c == EncodeSegment(payload)
    IN  [parts   |-> 3,
         header  |-> h,
         payload |-> c,
         sig     |-> EncodeSegment(HMACSign(alg, <<h, c>>, key))]

\* a string with no dots, such as "invalid-token"
MalformedToken ==
    [parts   |-> 1,
     header  |-> EncodeSegment([alg |-> "", typ |-> ""]),
     payload |-> EncodeSegment([raw |-> "invalid-token"]),
     sig     |-> EncodeSegment(<< >>)]

\* json.Marshal of *Claims (types.go, Claims): metadata is omitempty
MarshalClaims(c) ==
    LET base == [user_id     |-> c.UserID,
                 email       |-> c.Email,
                 role        |-> c.Role,
                 permissions |-> c.Permissions,
                 jti         |-> c.ID,
                 sub         |-> c.Subject,
                 iat         |-> c.IssuedAt,
                 exp         |-> c.ExpiresAt,
                 nbf         |-> c.NotBefore,
                 iss         |-> c.Issuer,
                 aud         |-> c.Audience]
    IN  IF c.Metadata = {} THEN base ELSE ("metadata" :> c.Metadata) @@ base

\* json.Marshal of *jwt.RegisteredClaims
MarshalRegistered(c) ==
    [jti |-> c.ID,
     sub |-> c.Subject,
     iat |-> c.IssuedAt,
     exp |-> c.ExpiresAt,
     nbf |-> c.NotBefore,
     iss |-> c.Issuer,
     aud |-> c.Audience]

\* a value of a map[string]interface{} with its dynamic type
Str(v) == [t |-> "string", v |-> v]
Num(v) == [t |-> "int", v |-> v]

\* the JSON form json.Marshal gives each member of a *Claims, which is also
\* the form json.Unmarshal wants of it
ClaimsJSON ==
    [user_id |-> "string", email |-> "string", role |-> "string",
     permissions |-> "[]string", metadata |-> "object", jti |-> "string",
     sub |-> "string", iat |-> "int", exp |-> "int", nbf |-> "int",
     iss |-> "string", aud |-> "[]string"]

\* the members jwt.RegisteredClaims decodes
RegisteredKeys == {"jti", "sub", "iat", "exp", "nbf", "iss", "aud"}

\* json.Marshal of a jwt.MapClaims m, a map from keys to values tagged with
\* their JSON form: a member in the form a *Claims would give it is written
\* as the structs write it, every other member is kept with its tag under
\* "rest"
MarshalMapClaims(m) ==
    LET plain == {k \in DOMAIN m \cap DOMAIN ClaimsJSON : m[k].t = ClaimsJSON[k]}
    IN  [k \in plain \cup {"rest"} |->
            IF k = "rest" THEN [j \in DOMAIN m \ plain |-> m[j]] ELSE m[k].v]

\* the members of a payload that are not in the form of the structs
Rest(payload) == Get(payload, "rest", << >>)

\* jwt.ClaimStrings.UnmarshalJSON takes an array of strings or one string
Aud(payload) ==
    IF "aud" \in DOMAIN payload THEN payload["aud"]
    ELSE IF "aud" \in DOMAIN Rest(payload) /\ Rest(payload)["aud"].t = "string"
         THEN <<Rest(payload)["aud"].v>>
         ELSE << >>

\* the decoding that takes no single string for an array of strings
DecodeFails_Strict(payload, keys) == DOMAIN Rest(payload) \cap keys # {}

\* json.Unmarshal fails on a member that a field of the target decodes and
\* that has another JSON form than the field's
DecodeFails(payload, keys) ==
    \E k \in DOMAIN Rest(payload) \cap keys :
        ~(k = "aud" /\ Rest(payload)[k].t = "string")

\* json.Unmarshal into &jwt.RegisteredClaims{}: absent keys stay zero
UnmarshalRegistered(payload) ==
    [ID        |-> Get(payload, "jti", NoID),
     Subject   |-> Get(payload, "sub", NoID),
     IssuedAt  |-> Get(payload, "iat", NoDate),
     ExpiresAt |-> Get(payload, "exp", NoDate),
     NotBefore |-> Get(payload, "nbf", NoDate),
     Issuer    |-> Get(payload, "iss", ""),
     Audience  |-> Aud(payload)]

\* json.Unmarshal into &Claims{}
UnmarshalClaims(payload) ==
    [UserID      |-> Get(payload, "user_id", NoID),
     Email       |-> Get(payload, "email", ""),
     Role        |-> Get(payload, "role", ""),
     Permissions |-> Get(payload, "permissions", << >>),
     Metadata    |-> Get(payload, "metadata", {}),
     ID          |-> Get(payload, "jti", NoID),
     Subject     |-> Get(payload, "sub", NoID),
     IssuedAt    |-> Get(payload, "iat", NoDate),
     ExpiresAt   |-> Get(payload, "exp", NoDate),
     NotBefore   |-> Get(payload, "nbf", NoDate),
     Issuer      |-> Get(payload, "iss", ""),
     Audience    |-> Aud(payload)]

\* the validation that still accepts at the instant exp
ValidateClaims_Inclusive(claims, t) ==
    IF claims.ExpiresAt # NoDate /\ ~(t <= DateTicks(claims.ExpiresAt))
    THEN ErrJwtTokenExpired
    ELSE IF claims.NotBefore # NoDate /\ t < DateTicks(claims.NotBefore)
         THEN ErrTokenNotValidYet
         ELSE Nil

\* (v *Validator) Validate with the default options: exp, when present,
\* must be after t (t < exp); nbf, when present, must not be after t
\* (t >= nbf); iat, iss, aud and sub are not checked
ValidateClaims(claims, t) ==
    IF claims.ExpiresAt # NoDate /\ ~(t < DateTicks(claims.ExpiresAt))
    THEN ErrJwtTokenExpired
    ELSE IF claims.NotBefore # NoDate /\ t < DateTicks(claims.NotBefore)
         THEN ErrTokenNotValidYet
         ELSE Nil

\* jwt.ParseWithClaims(tokenString, claims, keyFunc) at time t.  Unmarshal
\* names the claims type to fill, k is what keyFunc returns when the parser
\* calls it with the token it has decoded.  The result tells the error, the
\* claims, token.Valid, and whether the parser got as far as taking a key
\* from keyFunc.
ParseWithClaims(tokenString, Unmarshal, k, t) ==
    LET header == DecodeSegment(tokenString.header)
        claims == IF Unmarshal = "Claims"
                  THEN UnmarshalClaims(DecodeSegment(tokenString.payload))
                  ELSE UnmarshalRegistered(DecodeSegment(tokenString.payload))
        text   == <<tokenString.header, tokenString.payload>>
        bad(e, given) ==
            [err |-> e, claims |-> claims, valid |-> FALSE, keyGiven |-> given]
    IN  IF tokenString.parts # 3 THEN bad(ErrTokenMalformed, FALSE)
        ELSE IF DecodeFails(DecodeSegment(tokenString.payload),
                            IF Unmarshal = "Claims" THEN DOMAIN ClaimsJSON
                                                    ELSE RegisteredKeys)
             THEN bad(ErrTokenMalformed, FALSE)
        ELSE IF header.alg \notin SigningMethods THEN bad(ErrTokenUnverifiable, FALSE)
        ELSE IF k.err # Nil THEN bad(ErrTokenUnverifiable, FALSE)
        ELSE IF ~Verify(header.alg, text, DecodeSegment(tokenString.sig), k.key)
             THEN bad(ErrTokenSignatureInvalid, TRUE)
        ELSE IF ValidateClaims(claims, t) # Nil
             THEN bad(ValidateClaims(claims, t), TRUE)
        ELSE [err |-> Nil, claims |-> claims, valid |-> TRUE, keyGiven |-> TRUE]

---------------------------------------------------------------------------
(* The token code of package authkit (second half of simple_http.go) *)

NoClaims == [nil |-> TRUE]
NoToken == [parts |-> 0]

\* the access token that carries the default role instead of the record's
GenerateAccessToken_DefaultRole(user, jti, t) ==
    LET d == ParseDuration(config.TokenExpiry)
        duration == IF d.err # Nil THEN 24 * 3600 ELSE d.seconds
        claims == [UserID      |-> user.ID,
                   Email       |-> user.Email,
                   Role        |-> "user",
                   Permissions |-> user.Permissions,
                   Metadata    |-> user.Metadata,
                   ID          |-> jti,
                   Subject     |-> user.ID,
                   IssuedAt    |-> NewNumericDate(t),
                   ExpiresAt   |-> NewNumericDate(t + duration * TicksPerSecond),
                   NotBefore   |-> NewNumericDate(t),
                   Issuer      |-> "authkit",
                   Audience    |-> <<"authkit-users">>]
    IN  SignedString("HS256", MarshalClaims(claims), config.JWTSecret)

\* the access token without a token id of its own
GenerateAccessToken_NoJti(user, jti, t) ==
    LET d == ParseDuration(config.TokenExpiry)
        duration == IF d.err # Nil THEN 24 * 3600 ELSE d.seconds
        claims == [UserID      |-> user.ID,
                   Email       |-> user.Email,
                   Role        |-> user.Role,
                   Permissions |-> user.Permissions,
                   Metadata    |-> user.Metadata,
                   ID          |-> NoID,
                   Subject     |-> user.ID,
                   IssuedAt    |-> NewNumericDate(t),
                   ExpiresAt   |-> NewNumericDate(t + duration * TicksPerSecond),
                   NotBefore   |-> NewNumericDate(t),
                   Issuer      |-> "authkit",
                   Audience    |-> <<"authkit-users">>]
    IN  SignedString("HS256", MarshalClaims(claims), config.JWTSecret)

\* GenerateAccessToken(user), jti the uuid drawn, t the value of time.Now()
GenerateAccessToken(user, jti, t) ==
    LET d == ParseDuration(config.TokenExpiry)
        duration == IF d.err # Nil THEN 24 * 3600 ELSE d.seconds
        claims == [UserID      |-> user.ID,
                   Email       |-> user.Email,
                   Role        |-> user.Role,
                   Permissions |-> user.Permissions,
                   Metadata    |-> user.Metadata,
                   ID          |-> jti,
                   Subject     |-> user.ID,
                   IssuedAt    |-> NewNumericDate(t),
                   ExpiresAt   |-> NewNumericDate(t + duration * TicksPerSecond),
                   NotBefore   |-> NewNumericDate(t),
                   Issuer      |-> "authkit",
                   Audience    |-> <<"authkit-users">>]
    IN  SignedString("HS256", MarshalClaims(claims), config.JWTSecret)

\* the refresh token whose fallback lifetime is one day
GenerateRefreshToken_DayFallback(user, jti, t) ==
    LET d == ParseDuration(config.RefreshExpiry)
        duration == IF d.err # Nil THEN 24 * 3600 ELSE d.seconds
        claims == [ID        |-> jti,
                   Subject   |-> user.ID,
                   IssuedAt  |-> NewNumericDate(t),
                   ExpiresAt |-> NewNumericDate(t + duration * TicksPerSecond),
                   NotBefore |-> NewNumericDate(t),
                   Issuer    |-> "authkit-refresh",
                   Audience  |-> <<"authkit-refresh">>]
    IN  SignedString("HS256", MarshalRegistered(claims), config.JWTSecret)

\* GenerateRefreshToken(user)
GenerateRefreshToken(user, jti, t) ==
    LET d == ParseDuration(config.RefreshExpiry)
        duration == IF d.err # Nil THEN 7 * 24 * 3600 ELSE d.seconds
        claims == [ID        |-> jti,
                   Subject   |-> user.ID,
                   IssuedAt  |-> NewNumericDate(t),
                   ExpiresAt |-> NewNumericDate(t + duration * TicksPerSecond),
                   NotBefore |-> NewNumericDate(t),
                   Issuer    |-> "authkit-refresh",
                   Audience  |-> <<"authkit-refresh">>]
    IN  SignedString("HS256", MarshalRegistered(claims), config.JWTSecret)

\* the custom token in which the required values win over the caller's
GenerateCustomToken_RequiredWins(userID, customClaims, expiry, jti, t) ==
    LET required == [jti     |-> Str(jti),
                     user_id |-> Str(userID),
                     iss     |-> Str("authkit"),
                     aud     |-> Str("authkit-users"),
                     iat     |-> Num(NewNumericDate(t)),
                     exp     |-> Num(NewNumericDate(t + expiry)),
                     nbf     |-> Num(NewNumericDate(t))]
    IN  SignedString("HS256", MarshalMapClaims(required @@ customClaims),
                     config.JWTSecret)

\* GenerateCustomToken(userID, customClaims, expiry), expiry in ticks, jti
\* the uuid drawn, t the value of time.Now(): the required members first,
\* then every member of customClaims assigned over them
GenerateCustomToken(userID, customClaims, expiry, jti, t) ==
    LET required == [jti     |-> Str(jti),
                     user_id |-> Str(userID),
                     iss     |-> Str("authkit"),
                     aud     |-> Str("authkit-users"),
                     iat     |-> Num(NewNumericDate(t)),
                     exp     |-> Num(NewNumericDate(t + expiry)),
                     nbf     |-> Num(NewNumericDate(t))]
    IN  SignedString("HS256", MarshalMapClaims(customClaims @@ required),
                     config.JWTSecret)

\* the key function without the check of the signing method
ValidateKeyFunc_NoCheck(method) == [err |-> Nil, key |-> config.JWTSecret]

\* the key function ValidateToken passes to jwt.ParseWithClaims
ValidateKeyFunc(method) ==
    IF method \notin HMACMethods
    THEN [err |-> ErrInvalidToken, key |-> ""]
    ELSE [err |-> Nil, key |-> config.JWTSecret]

\* the key function RefreshToken passes to jwt.ParseWithClaims
RefreshKeyFunc(method) ==
    IF method \notin HMACMethods
    THEN [err |-> ErrInvalidToken, key |-> ""]
    ELSE [err |-> Nil, key |-> config.JWTSecret]

\* the validation that also wants the subject to be in the directory
ValidateToken_LiveOnly(tokenString, t) ==
    LET r == ParseWithClaims(tokenString, "Claims",
                             ValidateKeyFunc(DecodeSegment(tokenString.header).alg), t)
    IN  IF r.err = Nil /\ r.valid /\ r.claims.UserID \in DOMAIN users
        THEN [err |-> Nil, claims |-> r.claims, keyGiven |-> r.keyGiven, at |-> t]
        ELSE [err |-> ErrInvalidToken, claims |-> NoClaims, keyGiven |-> r.keyGiven, at |-> t]

\* the validation that reports the role the directory holds now
ValidateToken_CurrentRole(tokenString, t) ==
    LET r == ParseWithClaims(tokenString, "Claims",
                             ValidateKeyFunc(DecodeSegment(tokenString.header).alg), t)
        current == IF r.claims.UserID \in DOMAIN users
                   THEN [r.claims EXCEPT !.Role = users[r.claims.UserID].Role]
                   ELSE r.claims
    IN  IF r.err = Nil /\ r.valid
        THEN [err |-> Nil, claims |-> current, keyGiven |-> r.keyGiven, at |-> t]
        ELSE [err |-> ErrInvalidToken, claims |-> NoClaims, keyGiven |-> r.keyGiven, at |-> t]

\* ValidateToken(tokenString) at time t
ValidateToken(tokenString, t) ==
    LET r == ParseWithClaims(tokenString, "Claims",
                             ValidateKeyFunc(DecodeSegment(tokenString.header).alg), t)
    IN  IF r.err # Nil
        THEN [err |-> ErrInvalidToken, claims |-> NoClaims, keyGiven |-> r.keyGiven, at |-> t]
        ELSE IF r.valid
             THEN [err |-> Nil, claims |-> r.claims, keyGiven |-> r.keyGiven, at |-> t]
             ELSE [err |-> ErrInvalidToken, claims |-> NoClaims, keyGiven |-> r.keyGiven, at |-> t]

\* the parse that refuses a token string RefreshToken has taken before
RefreshParse_SingleUse(refreshTokenString, t) ==
    LET r == ParseWithClaims(refreshTokenString, "RegisteredClaims",
                             RefreshKeyFunc(DecodeSegment(refreshTokenString.header).alg), t)
        used == \E j \in issued : j.kind = "refreshed" /\ j.tok = refreshTokenString
    IN  IF r.err # Nil \/ ~r.valid \/ used
        THEN [err |-> ErrInvalidToken, claims |-> NoClaims, keyGiven |-> r.keyGiven, at |-> t]
        ELSE [err |-> Nil, claims |-> r.claims, keyGiven |-> r.keyGiven, at |-> t]

\* RefreshToken(refreshTokenString), up to "Get user from claims": the
\* error it returns, or Nil with the parsed claims
RefreshParse(refreshTokenString, t) ==
    LET r == ParseWithClaims(refreshTokenString, "RegisteredClaims",
                             RefreshKeyFunc(DecodeSegment(refreshTokenString.header).alg), t)
    IN  IF r.err # Nil
        THEN [err |-> ErrInvalidToken, claims |-> NoClaims, keyGiven |-> r.keyGiven, at |-> t]
        ELSE IF ~r.valid
             THEN [err |-> ErrInvalidToken, claims |-> NoClaims, keyGiven |-> r.keyGiven, at |-> t]
             ELSE [err |-> Nil, claims |-> r.claims, keyGiven |-> r.keyGiven, at |-> t]

\* the TokenResponse of LoginUser and RefreshToken
TokenResponse(user, accessToken, refreshToken, t) ==
    [err          |-> Nil,
     AccessToken  |-> accessToken,
     RefreshToken |-> refreshToken,
     TokenType    |-> "Bearer",
     ExpiresIn    |-> ParseDuration(config.TokenExpiry).seconds,
     User         |-> userToUserInfo(user),
     at           |-> t]

\* the entries the history keeps for a minted pair
Minted(user, accessToken, refreshToken) ==
    { [tok |-> accessToken, kind |-> "access", user |-> user],
      [tok |-> refreshToken, kind |-> "refresh", user |-> user] }

\* the entry the history keeps for an issued refresh token that RefreshToken
\* took and answered with the pair whose refresh token is newRefreshToken
Refreshes(refreshTokenString, newRefreshToken) ==
    IF \E i \in issued : i.kind = "refresh" /\ i.tok = refreshTokenString
    THEN { [tok |-> refreshTokenString, kind |-> "refreshed", new |-> newRefreshToken] }
    ELSE {}

\* the token strings the instance has handed out
IssuedTokens == {i.tok : i \in {j \in issued : j.kind \in {"access", "refresh"}}}

\* ListUsers(): the views of all records, in no order
ListUsers == {userToUserInfo(users[id]) : id \in DOMAIN users}

---------------------------------------------------------------------------
(* Callers.  proc[p].pc is "idle" between calls (op, arg and ret then tell  *)
(* the last call and its result), "call" for a caller that has fixed its    *)
(* next call, and otherwise the place inside the call in progress.          *)

NoArg == [nil |-> TRUE]
NoRet == [nil |-> TRUE]
NoUser == [nil |-> TRUE]

IdleProc == [pc |-> "idle", op |-> "none", arg |-> NoArg, ret |-> NoRet,
             user |-> NoID, gone |-> NoUser]

\* a caller that takes no part
OffProc == [IdleProc EXCEPT !.pc = "off"]

\* the requests of the free-running callers
RegisterRequests ==
    [Email : {"a@x", "b@x"}, Password : {"pw1"}, Name : Names, Role : Roles,
     Metadata : {{}}]

LoginRequests == [Email : {"a@x", "b@x"}, Password : Passwords]

UpdateMaps ==
    { [role |-> Str("admin")],
      [name |-> Str("Bob"), role |-> Num("7")],
      [email |-> Str("b@x"), id |-> Str("9"), password |-> Str("pw2"),
       created_at |-> Str("0"), email_verified |-> [t |-> "bool", v |-> "true"]] }

\* the ids a caller may name: the ones drawn so far
KnownIds == 1..entropy

\* the arguments with which p may start the call op: the ones it had fixed,
\* or for an idle caller any of free
Args(p, op, free) ==
    IF proc[p].pc = "call" /\ proc[p].op = op THEN {proc[p].arg}
    ELSE IF proc[p].pc = "idle" /\ budget > 0 THEN free
    ELSE {}

\* a call that was not fixed beforehand is taken from the budget
Spend(p) == IF proc[p].pc = "idle" THEN budget - 1 ELSE budget

Enter(p, op, arg, pc) ==
    [proc EXCEPT ![p] = [IdleProc EXCEPT !.pc = pc, !.op = op, !.arg = arg]]

Return(p, r) == [proc EXCEPT ![p].pc = "idle", ![p].ret = r]

\* a caller reaches the statement that makes the call c: from here on the
\* call is made as soon as its first lock is to be had
CallStart(p, calls) ==
    /\ proc[p].pc = "idle"
    /\ budget > 0
    /\ \E c \in calls : proc' = Enter(p, c.op, c.arg, "call")
    /\ budget' = budget - 1
    /\ UNCHANGED <<config, users, mutex, now, entropy, issued>>

\* sync.RWMutex
CanLock == mutex.w = NoProc /\ mutex.r = {}
CanRLock == mutex.w = NoProc
Lock(p) == [mutex EXCEPT !.w = p]
Unlock(p) == [mutex EXCEPT !.w = NoProc]
RLock(p) == [mutex EXCEPT !.r = @ \cup {p}]
RUnlock(p) == [mutex EXCEPT !.r = @ \ {p}]

\* the record as it was when a token was first minted for the user
Deref_Stale(p) ==
    LET minted == {j \in issued : j.kind \in {"access", "refresh"}}
        snapshots == {i.user : i \in {j \in minted : j.user.ID = proc[p].user}}
    IN  CHOOSE u \in snapshots : \A v \in snapshots : u.UpdatedAt <= v.UpdatedAt

\* the record behind the pointer a caller holds: the live record, or the
\* record as it was when DeleteUser unlinked it
Deref(p) ==
    IF proc[p].user \in DOMAIN users THEN users[proc[p].user] ELSE proc[p].gone

---------------------------------------------------------------------------
(* RegisterUser *)

\* a.mutex.Lock()
RegisterUserLock(p, reqs) ==
    \E req \in Args(p, "RegisterUser", reqs) :
        /\ CanLock
        /\ mutex' = Lock(p)
        /\ proc' = Enter(p, "RegisterUser", req, "locked")
        /\ budget' = Spend(p)
        /\ UNCHANGED <<config, users, now, entropy, issued>>

\* the body, under the lock, and the deferred Unlock
RegisterUserBody(p) ==
    /\ proc[p].pc = "locked"
    /\ proc[p].op = "RegisterUser"
    /\ \E build \in BcryptBuilds :
       LET req == proc[p].arg
           h == HashPassword(req.Password, entropy + 1, build)
           user == NewUser(req, entropy + 2, h.hash, now)
       IN  IF IdsByEmail(req.Email) # {}
           THEN /\ proc' = Return(p, [err |-> ErrUserAlreadyExists])
                /\ UNCHANGED <<users, entropy>>
           ELSE IF h.err # Nil
           THEN /\ proc' = Return(p, [err |-> h.err])
                /\ UNCHANGED <<users, entropy>>
           ELSE /\ users' = (user.ID :> user) @@ users
                /\ entropy' = entropy + 2
                /\ proc' = Return(p, [err |-> Nil, User |-> userToUserInfo(user)])
    /\ mutex' = Unlock(p)
    /\ UNCHANGED <<config, now, issued, budget>>

---------------------------------------------------------------------------
(* LoginUser *)

\* a.mutex.RLock()
LoginUserRLock(p, reqs) ==
    \E req \in Args(p, "LoginUser", reqs) :
        /\ CanRLock
        /\ mutex' = RLock(p)
        /\ proc' = Enter(p, "LoginUser", req, "rlocked")
        /\ budget' = Spend(p)
        /\ UNCHANGED <<config, users, now, entropy, issued>>

\* the body, under the read lock, and the deferred RUnlock
\* the login that notes in the record that the user has logged in
LoginUserBody_Notes(p) ==
    /\ proc[p].pc = "rlocked"
    /\ proc[p].op = "LoginUser"
    /\ LET req == proc[p].arg
       IN  IF IdsByEmail(req.Email) = {}
           THEN /\ proc' = Return(p, [err |-> ErrUserNotFound])
                /\ UNCHANGED <<entropy, issued, users>>
           ELSE \E id \in IdsByEmail(req.Email) :
                LET user == users[id]
                    accessToken == GenerateAccessToken(user, entropy + 1, now)
                    refreshToken == GenerateRefreshToken(user, entropy + 2, now)
                IN  IF ~ComparePassword(user.Password, req.Password)
                    THEN /\ proc' = Return(p, [err |-> ErrInvalidPassword])
                         /\ UNCHANGED <<entropy, issued, users>>
                    ELSE /\ entropy' = entropy + 2
                         /\ issued' = issued \cup Minted(user, accessToken, refreshToken)
                         /\ users' = [users EXCEPT ![id].Metadata = @ \cup {"last_login"}]
                         /\ proc' = Return(p, TokenResponse(user, accessToken, refreshToken, now))
    /\ mutex' = RUnlock(p)
    /\ UNCHANGED <<config, now, budget>>

LoginUserBody(p) ==
    /\ proc[p].pc = "rlocked"
    /\ proc[p].op = "LoginUser"
    /\ LET req == proc[p].arg
       IN  IF IdsByEmail(req.Email) = {}
           THEN /\ proc' = Return(p, [err |-> ErrUserNotFound])
                /\ UNCHANGED <<entropy, issued>>
           ELSE \E id \in IdsByEmail(req.Email) :
                LET user == users[id]
                    accessToken == GenerateAccessToken(user, entropy + 1, now)
                    refreshToken == GenerateRefreshToken(user, entropy + 2, now)
                IN  IF ~ComparePassword(user.Password, req.Password)
                    THEN /\ proc' = Return(p, [err |-> ErrInvalidPassword])
                         /\ UNCHANGED <<entropy, issued>>
                    ELSE /\ entropy' = entropy + 2
                         /\ issued' = issued \cup Minted(user, accessToken, refreshToken)
                         /\ proc' = Return(p, TokenResponse(user, accessToken, refreshToken, now))
    /\ mutex' = RUnlock(p)
    /\ UNCHANGED <<config, users, now, budget>>

---------------------------------------------------------------------------
(* UpdateUser, DeleteUser *)

\* the update that also takes an "email" key
ApplyUpdates_Email(user, updates, t) ==
    LET has(k, ty) == k \in DOMAIN updates /\ updates[k].t = ty
    IN  [user EXCEPT
            !.Email       = IF has("email", "string") THEN updates["email"].v ELSE @,
            !.Name        = IF has("name", "string") THEN updates["name"].v ELSE @,
            !.Role        = IF has("role", "string") THEN updates["role"].v ELSE @,
            !.UpdatedAt   = t]

\* the update that also takes a "password" key, storing it as it is
ApplyUpdates_Password(user, updates, t) ==
    LET has(k, ty) == k \in DOMAIN updates /\ updates[k].t = ty
    IN  [user EXCEPT
            !.Password    = IF has("password", "string")
                            THEN [@ EXCEPT !.digest = <<updates["password"].v>>] ELSE @,
            !.Name        = IF has("name", "string") THEN updates["name"].v ELSE @,
            !.Role        = IF has("role", "string") THEN updates["role"].v ELSE @,
            !.Permissions = IF has("permissions", "[]string")
                            THEN updates["permissions"].v ELSE @,
            !.Metadata    = IF has("metadata", "map") THEN updates["metadata"].v ELSE @,
            !.UpdatedAt   = t]

\* the update that takes a value of any type for a key it knows
ApplyUpdates_AnyType(user, updates, t) ==
    LET has(k) == k \in DOMAIN updates
    IN  [user EXCEPT
            !.Name        = IF has("name") THEN updates["name"].v ELSE @,
            !.Role        = IF has("role") THEN updates["role"].v ELSE @,
            !.Permissions = IF has("permissions") THEN updates["permissions"].v ELSE @,
            !.Metadata    = IF has("metadata") THEN updates["metadata"].v ELSE @,
            !.UpdatedAt   = t]

\* the fields UpdateUser assigns, each behind its type assertion
ApplyUpdates(user, updates, t) ==
    LET has(k, ty) == k \in DOMAIN updates /\ updates[k].t = ty
    IN  [user EXCEPT
            !.Name        = IF has("name", "string") THEN updates["name"].v ELSE @,
            !.Role        = IF has("role", "string") THEN updates["role"].v ELSE @,
            !.Permissions = IF has("permissions", "[]string")
                            THEN updates["permissions"].v ELSE @,
            !.Metadata    = IF has("metadata", "map") THEN updates["metadata"].v ELSE @,
            !.UpdatedAt   = t]

UpdateUserLock(p, ids, maps) ==
    \E arg \in Args(p, "UpdateUser", [ID : ids, Updates : maps]) :
        /\ CanLock
        /\ mutex' = Lock(p)
        /\ proc' = Enter(p, "UpdateUser", arg, "locked")
        /\ budget' = Spend(p)
        /\ UNCHANGED <<config, users, now, entropy, issued>>

\* the body that looks the user up with GetUserByID, which takes the read
\* lock, while it holds the write lock
UpdateUserBody_Relock(p) ==
    /\ proc[p].pc = "locked"
    /\ proc[p].op = "UpdateUser"
    /\ CanRLock
    /\ LET userID == proc[p].arg.ID
       IN  IF userID \notin DOMAIN users
           THEN /\ proc' = Return(p, [err |-> ErrUserNotFound])
                /\ UNCHANGED users
           ELSE LET user == ApplyUpdates(users[userID], proc[p].arg.Updates, now)
                IN  /\ users' = [users EXCEPT ![userID] = user]
                    /\ proc' = Return(p, [err |-> Nil, User |-> userToUserInfo(user)])
    /\ mutex' = Unlock(p)
    /\ UNCHANGED <<config, now, entropy, issued, budget>>

UpdateUserBody(p) ==
    /\ proc[p].pc = "locked"
    /\ proc[p].op = "UpdateUser"
    /\ LET userID == proc[p].arg.ID
       IN  IF userID \notin DOMAIN users
           THEN /\ proc' = Return(p, [err |-> ErrUserNotFound])
                /\ UNCHANGED users
           ELSE LET user == ApplyUpdates(users[userID], proc[p].arg.Updates, now)
                IN  /\ users' = [users EXCEPT ![userID] = user]
                    /\ proc' = Return(p, [err |-> Nil, User |-> userToUserInfo(user)])
    /\ mutex' = Unlock(p)
    /\ UNCHANGED <<config, now, entropy, issued, budget>>

DeleteUserLock(p, ids) ==
    \E arg \in Args(p, "DeleteUser", [ID : ids]) :
        /\ CanLock
        /\ mutex' = Lock(p)
        /\ proc' = Enter(p, "DeleteUser", arg, "locked")
        /\ budget' = Spend(p)
        /\ UNCHANGED <<config, users, now, entropy, issued>>

\* delete(a.users, userID): callers that hold the pointer keep the record
DeleteUserBody(p) ==
    /\ proc[p].pc = "locked"
    /\ proc[p].op = "DeleteUser"
    /\ LET userID == proc[p].arg.ID
           kept == [q \in Procs |->
                       IF q # p /\ proc[q].user = userID /\ userID \in DOMAIN users
                       THEN [proc[q] EXCEPT !.gone = users[userID]]
                       ELSE proc[q]]
       IN  IF userID \notin DOMAIN users
           THEN /\ proc' = Return(p, [err |-> ErrUserNotFound])
                /\ UNCHANGED users
           ELSE /\ users' = [id \in DOMAIN users \ {userID} |-> users[id]]
                /\ proc' = [kept EXCEPT ![p].pc = "idle", ![p].ret = [err |-> Nil]]
    /\ mutex' = Unlock(p)
    /\ UNCHANGED <<config, now, entropy, issued, budget>>

---------------------------------------------------------------------------
(* GetUserByID, GetUserByEmail, ListUsers, and what a caller can do with    *)
(* the *User it was given                                                   *)

\* GetUserByID(userID): RLock, the map lookup, RUnlock.  The value returned
\* is the pointer the map holds; ret.User is the record behind it at the
\* return, proc[p].user the pointer the caller keeps.
GetUserByIDCall(p, ids) ==
    \E arg \in Args(p, "GetUserByID", [ID : ids]) :
        /\ CanRLock
        /\ proc' = IF arg.ID \notin DOMAIN users
                   THEN [proc EXCEPT ![p] =
                            [IdleProc EXCEPT !.op = "GetUserByID", !.arg = arg,
                                             !.ret = [err |-> ErrUserNotFound]]]
                   ELSE [proc EXCEPT ![p] =
                            [IdleProc EXCEPT !.op = "GetUserByID", !.arg = arg,
                                             !.user = arg.ID,
                                             !.ret = [err |-> Nil, User |-> users[arg.ID]]]]
        /\ budget' = Spend(p)
        /\ UNCHANGED <<config, users, mutex, now, entropy, issued>>

\* GetUserByEmail(email): RLock, the scan, RUnlock
GetUserByEmailCall(p, emails) ==
    \E arg \in Args(p, "GetUserByEmail", [Email : emails]) :
        /\ CanRLock
        /\ IF IdsByEmail(arg.Email) = {}
           THEN proc' = [proc EXCEPT ![p] =
                            [IdleProc EXCEPT !.op = "GetUserByEmail", !.arg = arg,
                                             !.ret = [err |-> ErrUserNotFound]]]
           ELSE \E id \in IdsByEmail(arg.Email) :
                    proc' = [proc EXCEPT ![p] =
                                [IdleProc EXCEPT !.op = "GetUserByEmail", !.arg = arg,
                                                 !.user = id,
                                                 !.ret = [err |-> Nil, User |-> users[id]]]]
        /\ budget' = Spend(p)
        /\ UNCHANGED <<config, users, mutex, now, entropy, issued>>

\* ListUsers(): RLock, the views of all records, RUnlock
ListUsersCall(p) ==
    \E arg \in Args(p, "ListUsers", {NoArg}) :
        /\ CanRLock
        /\ proc' = [proc EXCEPT ![p] =
                       [IdleProc EXCEPT !.op = "ListUsers", !.arg = arg,
                                        !.ret = [err |-> Nil, Users |-> ListUsers]]]
        /\ budget' = Spend(p)
        /\ UNCHANGED <<config, users, mutex, now, entropy, issued>>

\* a caller assigns to a field of the *User that GetUserByID or
\* GetUserByEmail returned: the pointer is the one the map holds, so the
\* assignment lands in the directory, and no lock is involved
CallerWrites(p) ==
    /\ proc[p].pc = "idle"
    /\ proc[p].op \in {"GetUserByID", "GetUserByEmail"}
    /\ proc[p].user \in DOMAIN users
    /\ budget > 0
    /\ \E role \in Roles \ {users[proc[p].user].Role} :
          users' = [users EXCEPT ![proc[p].user].Role = role]
    /\ budget' = budget - 1
    /\ UNCHANGED <<config, mutex, proc, now, entropy, issued>>

---------------------------------------------------------------------------
(* The token strings a caller can present *)

\* what someone without the secret can make of an issued token string
Crafted(tok) ==
    LET h == DecodeSegment(tok.header)
        c == DecodeSegment(tok.payload)
        later == [c EXCEPT !["exp"] = @ + 1]
        pads == 1..(IF MaxPad < 2 ^ UnusedBits(h.alg) - 1
                    THEN MaxPad ELSE 2 ^ UnusedBits(h.alg) - 1)
    IN  { [tok EXCEPT !.payload = EncodeSegment(later)],
          [tok EXCEPT !.payload.pad = 1],
          [tok EXCEPT !.sig = EncodeSegment(<<"forged">>)],
          [tok EXCEPT !.header = EncodeSegment([h EXCEPT !.alg = "none"]),
                      !.sig = EncodeSegment(<< >>)],
          [tok EXCEPT !.header = EncodeSegment([h EXCEPT !.alg = "RS256"]),
                      !.sig = EncodeSegment(<<"forged">>)],
          [tok EXCEPT !.header = EncodeSegment([h EXCEPT !.alg = "HS384"])] }
        \cup { [tok EXCEPT !.sig.pad = n] : n \in pads }
        \cup { SignedString("HS256", later, k) : k \in Secrets \ {config.JWTSecret} }

\* issued token strings, what can be made of them, and a string with no dots
Presentable ==
    IssuedTokens \cup UNION {Crafted(tok) : tok \in IssuedTokens} \cup {MalformedToken}

---------------------------------------------------------------------------
(* ValidateToken, RefreshToken *)

\* ValidateToken takes no lock and changes nothing
ValidateTokenCall(p, pool) ==
    \E arg \in Args(p, "ValidateToken", [Token : pool]) :
        /\ proc' = [proc EXCEPT ![p] =
                       [IdleProc EXCEPT !.op = "ValidateToken",
                                        !.arg = arg,
                                        !.ret = ValidateToken(arg.Token, now)]]
        /\ budget' = Spend(p)
        /\ UNCHANGED <<config, users, mutex, now, entropy, issued>>

\* GenerateAccessToken(user) and GenerateRefreshToken(user) called from
\* outside the package, with a *User the caller holds; they take no lock
GenerateAccessTokenCall(p, usrs) ==
    \E arg \in Args(p, "GenerateAccessToken", [User : usrs]) :
        LET tok == GenerateAccessToken(arg.User, entropy + 1, now)
        IN  /\ proc' = [proc EXCEPT ![p] =
                           [IdleProc EXCEPT !.op = "GenerateAccessToken",
                                            !.arg = arg,
                                            !.ret = [err |-> Nil, Token |-> tok]]]
            /\ entropy' = entropy + 1
            /\ issued' = issued \cup {[tok |-> tok, kind |-> "access", user |-> arg.User]}
            /\ budget' = Spend(p)
            /\ UNCHANGED <<config, users, mutex, now>>

GenerateRefreshTokenCall(p, usrs) ==
    \E arg \in Args(p, "GenerateRefreshToken", [User : usrs]) :
        LET tok == GenerateRefreshToken(arg.User, entropy + 1, now)
        IN  /\ proc' = [proc EXCEPT ![p] =
                           [IdleProc EXCEPT !.op = "GenerateRefreshToken",
                                            !.arg = arg,
                                            !.ret = [err |-> Nil, Token |-> tok]]]
            /\ entropy' = entropy + 1
            /\ issued' = issued \cup {[tok |-> tok, kind |-> "refresh", user |-> arg.User]}
            /\ budget' = Spend(p)
            /\ UNCHANGED <<config, users, mutex, now>>

---------------------------------------------------------------------------
(* The HTTP handlers and middlewares for Gin and Fiber *)

\* LoginHandler after the request is bound: the response it writes for what
\* LoginUser returned
LoginHandler(r) ==
    IF r.err # Nil
    THEN [status |-> IF r.err = ErrUserNotFound THEN 404 ELSE 401,
          body   |-> [error |-> r.err]]
    ELSE [status |-> 200, body |-> r]

\* LoginHandlerFiber after the request is parsed
LoginHandlerFiber(r) ==
    IF r.err # Nil
    THEN [status |-> IF r.err = ErrUserNotFound THEN 404 ELSE 401,
          body   |-> [error |-> r.err]]
    ELSE [status |-> 200, body |-> r]

\* the bodies of a login request: the ones that bind to a LoginRequest,
\* and one that does not
LoginBodies ==
    [bind : {TRUE}, Email : {"a@x", "b@x"}, Password : {"pw1", "pw2"}]
        \cup {[bind |-> FALSE, Email |-> "", Password |-> ""]}

\* LoginHandler and LoginHandlerFiber up to a.mutex.RLock() in LoginUser: a
\* body that does not bind is answered with 400, the others go on to
\* LoginUser
LoginHandlerCall(p, bodies) ==
    \E body \in Args(p, "LoginHandler", bodies) :
        /\ IF body.bind
           THEN /\ CanRLock
                /\ mutex' = RLock(p)
                /\ proc' = Enter(p, "LoginUser",
                                 [Email |-> body.Email, Password |-> body.Password],
                                 "rlocked")
           ELSE /\ proc' = [proc EXCEPT ![p] =
                               [IdleProc EXCEPT !.op = "LoginHandler", !.arg = body,
                                                !.ret = [status |-> 400,
                                                         body |-> [error |-> "bind"]]]]
                /\ UNCHANGED mutex
        /\ budget' = Spend(p)
        /\ UNCHANGED <<config, users, now, entropy, issued>>

\* the empty string taken as a token string: one part, nothing in it
EmptyToken == [MalformedToken EXCEPT !.payload = EncodeSegment([raw |-> ""])]

\* an Authorization header is the text prefix followed by the token string;
\* NoHeader is the header that is absent or empty
NoHeader == [prefix |-> "", token |-> EmptyToken]

\* the keys of a request context no middleware has written to
NoContext == [nil |-> TRUE]

\* what a middleware does with the request: c.Next() with the context keys
\* it leaves, or c.JSON(status, {"error": message}) and c.Abort()
PassOn(keys) == [next |-> TRUE, status |-> 0, error |-> "", keys |-> keys]
Abort(status, message, keys) ==
    [next |-> FALSE, status |-> status, error |-> message, keys |-> keys]

\* c.Set of the five user keys from the claims
SetUser(claims) ==
    [user_id          |-> Str(claims.UserID),
     user_email       |-> Str(claims.Email),
     user_role        |-> Str(claims.Role),
     user_permissions |-> [t |-> "[]string", v |-> claims.Permissions],
     user_claims      |-> [t |-> "*Claims", v |-> claims]]

\* the middleware that takes any prefix for "Bearer "
GinMiddleware_AnyScheme(authHeader, t) ==
    LET r == ValidateToken(authHeader.token, t)
    IN  IF authHeader = NoHeader
        THEN Abort(401, "Authorization header required", NoContext)
        ELSE IF r.err # Nil
             THEN Abort(401, "Invalid token", NoContext)
             ELSE PassOn(SetUser(r.claims))

\* GinMiddleware() on a request with the header authHeader at time t
GinMiddleware(authHeader, t) ==
    LET r == ValidateToken(authHeader.token, t)
    IN  IF authHeader = NoHeader
        THEN Abort(401, "Authorization header required", NoContext)
        ELSE IF authHeader.prefix # "Bearer "
             THEN Abort(401, "Invalid authorization header format", NoContext)
        ELSE IF r.err # Nil
             THEN Abort(401, IF r.err = ErrTokenExpired THEN "Token expired"
                                                        ELSE "Invalid token",
                        NoContext)
             ELSE PassOn(SetUser(r.claims))

\* FiberMiddleware() on a request with the header authHeader at time t
FiberMiddleware(authHeader, t) ==
    LET r == ValidateToken(authHeader.token, t)
    IN  IF authHeader = NoHeader
        THEN Abort(401, "Authorization header required", NoContext)
        ELSE IF authHeader.prefix # "Bearer "
             THEN Abort(401, "Invalid authorization header format", NoContext)
        ELSE IF r.err # Nil
             THEN Abort(401, IF r.err = ErrTokenExpired THEN "Token expired"
                                                        ELSE "Invalid token",
                        NoContext)
             ELSE PassOn(SetUser(r.claims))

\* the role check that lets every authenticated user through
RequireRole_Any(role, keys) ==
    IF "user_role" \notin DOMAIN keys
    THEN Abort(401, "User not authenticated", keys)
    ELSE PassOn(keys)

\* RequireRole(role) on a request whose context holds keys
RequireRole(role, keys) ==
    IF "user_role" \notin DOMAIN keys
    THEN Abort(401, "User not authenticated", keys)
    ELSE IF keys.user_role # Str(role)
         THEN Abort(403, "Insufficient permissions", keys)
         ELSE PassOn(keys)

\* RequireRoles(roles)
RequireRoles(roles, keys) ==
    IF "user_role" \notin DOMAIN keys
    THEN Abort(401, "User not authenticated", keys)
    ELSE IF ~\E role \in roles : keys.user_role = Str(role)
         THEN Abort(403, "Insufficient permissions", keys)
         ELSE PassOn(keys)

\* RequirePermission(permission)
RequirePermission(permission, keys) ==
    IF "user_permissions" \notin DOMAIN keys
    THEN Abort(401, "User not authenticated", keys)
    ELSE IF keys.user_permissions.t # "[]string"
         THEN Abort(500, "Invalid permissions format", keys)
    ELSE IF ~\E i \in DOMAIN keys.user_permissions.v :
                 keys.user_permissions.v[i] = permission
         THEN Abort(403, "Insufficient permissions", keys)
         ELSE PassOn(keys)

\* the Fiber middlewares: c.Locals(key) == nil where Gin has !exists
RequireRoleFiber(role, keys) ==
    IF "user_role" \notin DOMAIN keys
    THEN Abort(401, "User not authenticated", keys)
    ELSE IF keys.user_role # Str(role)
         THEN Abort(403, "Insufficient permissions", keys)
         ELSE PassOn(keys)

RequireRolesFiber(roles, keys) ==
    IF "user_role" \notin DOMAIN keys
    THEN Abort(401, "User not authenticated", keys)
    ELSE IF ~\E role \in roles : keys.user_role = Str(role)
         THEN Abort(403, "Insufficient permissions", keys)
         ELSE PassOn(keys)

RequirePermissionFiber(permission, keys) ==
    IF "user_permissions" \notin DOMAIN keys
    THEN Abort(401, "User not authenticated", keys)
    ELSE IF keys.user_permissions.t # "[]string"
         THEN Abort(500, "Invalid permissions format", keys)
    ELSE IF ~\E i \in DOMAIN keys.user_permissions.v :
                 keys.user_permissions.v[i] = permission
         THEN Abort(403, "Insufficient permissions", keys)
         ELSE PassOn(keys)

\* the authorization middleware a route group uses, if any
NoGuard == [kind |-> "none", role |-> "", roles |-> {}, permission |-> ""]
GinGuard(guard, keys) ==
    CASE guard.kind = "role"       -> RequireRole(guard.role, keys)
      [] guard.kind = "roles"      -> RequireRoles(guard.roles, keys)
      [] guard.kind = "permission" -> RequirePermission(guard.permission, keys)
      [] OTHER                     -> PassOn(keys)
FiberGuard(guard, keys) ==
    CASE guard.kind = "role"       -> RequireRoleFiber(guard.role, keys)
      [] guard.kind = "roles"      -> RequireRolesFiber(guard.roles, keys)
      [] guard.kind = "permission" -> RequirePermissionFiber(guard.permission, keys)
      [] OTHER                     -> PassOn(keys)

\* a request to a Gin route group: the handlers of the chain run in order
\* until one aborts; mw is what the authentication middleware did, out what
\* the chain did up to the route's own handler
GinRequest(p, reqs) ==
    \E req \in Args(p, "GinRequest", reqs) :
        LET mw  == IF req.auth THEN GinMiddleware(req.header, now)
                               ELSE PassOn(NoContext)
            out == IF mw.next THEN GinGuard(req.guard, mw.keys) ELSE mw
        IN  /\ proc' = [proc EXCEPT ![p] =
                           [IdleProc EXCEPT !.op = "GinRequest",
                                            !.arg = req,
                                            !.ret = [mw |-> mw, out |-> out,
                                                     at |-> now]]]
            /\ budget' = Spend(p)
            /\ UNCHANGED <<config, users, mutex, now, entropy, issued>>

\* a request to a Fiber route group
FiberRequest(p, reqs) ==
    \E req \in Args(p, "FiberRequest", reqs) :
        LET mw  == IF req.auth THEN FiberMiddleware(req.header, now)
                               ELSE PassOn(NoContext)
            out == IF mw.next THEN FiberGuard(req.guard, mw.keys) ELSE mw
        IN  /\ proc' = [proc EXCEPT ![p] =
                           [IdleProc EXCEPT !.op = "FiberRequest",
                                            !.arg = req,
                                            !.ret = [mw |-> mw, out |-> out,
                                                     at |-> now]]]
            /\ budget' = Spend(p)
            /\ UNCHANGED <<config, users, mutex, now, entropy, issued>>

\* the keys UpdateProfileHandler deletes from the body before UpdateUser
SensitiveKeys == {"id", "password", "email", "created_at", "updated_at"}
StripSensitive(updates) ==
    [k \in DOMAIN updates \ SensitiveKeys |-> updates[k]]

\* what UpdateProfileHandler writes for what UpdateUser returned
UpdateProfileResponse(r) ==
    IF r.err # Nil
    THEN [status |-> 400, error |-> r.err]
    ELSE [status |-> 200, error |-> ""]

\* PUT /profile of the Gin server, up to a.mutex.Lock() in UpdateUser: the
\* route is in the group that uses GinMiddleware; a request the middleware
\* stops or whose body is no JSON object is answered here, the others go on
\* to UpdateUser with the user id of the claims
UpdateProfileHandler(p, reqs) ==
    \E req \in Args(p, "UpdateProfileHandler", reqs) :
        LET mw == GinMiddleware(req.header, now)
        IN  /\ IF ~mw.next
               THEN /\ proc' = [proc EXCEPT ![p] =
                                   [IdleProc EXCEPT !.op = "UpdateProfileHandler",
                                                    !.arg = req,
                                                    !.ret = [status |-> mw.status,
                                                             error |-> mw.error]]]
                    /\ UNCHANGED mutex
               ELSE IF "user_claims" \notin DOMAIN mw.keys
               THEN /\ proc' = [proc EXCEPT ![p] =
                                   [IdleProc EXCEPT !.op = "UpdateProfileHandler",
                                                    !.arg = req,
                                                    !.ret = [status |-> 401,
                                                             error |-> "User not found in context"]]]
                    /\ UNCHANGED mutex
               ELSE IF ~req.body.bind
               THEN /\ proc' = [proc EXCEPT ![p] =
                                   [IdleProc EXCEPT !.op = "UpdateProfileHandler",
                                                    !.arg = req,
                                                    !.ret = [status |-> 400,
                                                             error |-> "bind"]]]
                    /\ UNCHANGED mutex
               ELSE /\ CanLock
                    /\ mutex' = Lock(p)
                    /\ proc' = Enter(p, "UpdateUser",
                                     [ID      |-> mw.keys.user_claims.v.UserID,
                                      Updates |-> StripSensitive(req.body.updates)],
                                     "locked")
            /\ budget' = Spend(p)
            /\ UNCHANGED <<config, users, now, entropy, issued>>

\* PUT /profile of the Fiber server
UpdateProfileHandlerFiber(p, reqs) ==
    \E req \in Args(p, "UpdateProfileHandlerFiber", reqs) :
        LET mw == FiberMiddleware(req.header, now)
        IN  /\ IF ~mw.next
               THEN /\ proc' = [proc EXCEPT ![p] =
                                   [IdleProc EXCEPT !.op = "UpdateProfileHandlerFiber",
                                                    !.arg = req,
                                                    !.ret = [status |-> mw.status,
                                                             error |-> mw.error]]]
                    /\ UNCHANGED mutex
               ELSE IF "user_claims" \notin DOMAIN mw.keys
               THEN /\ proc' = [proc EXCEPT ![p] =
                                   [IdleProc EXCEPT !.op = "UpdateProfileHandlerFiber",
                                                    !.arg = req,
                                                    !.ret = [status |-> 401,
                                                             error |-> "User not found in context"]]]
                    /\ UNCHANGED mutex
               ELSE IF ~req.body.bind
               THEN /\ proc' = [proc EXCEPT ![p] =
                                   [IdleProc EXCEPT !.op = "UpdateProfileHandlerFiber",
                                                    !.arg = req,
                                                    !.ret = [status |-> 400,
                                                             error |-> "bind"]]]
                    /\ UNCHANGED mutex
               ELSE /\ CanLock
                    /\ mutex' = Lock(p)
                    /\ proc' = Enter(p, "UpdateUser",
                                     [ID      |-> mw.keys.user_claims.v.UserID,
                                      Updates |-> StripSensitive(req.body.updates)],
                                     "locked")
            /\ budget' = Spend(p)
            /\ UNCHANGED <<config, users, now, entropy, issued>>

---------------------------------------------------------------------------
(* internal/cli/user.go: one run of the authkit command per action *)

\* what the run that p has finished leaves in the history of the shell: a
\* registration that succeeded
Ran(p) ==
    IF proc[p].op = "RegisterUser" /\ proc[p].ret.err = Nil
    THEN {[kind |-> "cli", email |-> proc[p].arg.Email,
           password |-> proc[p].arg.Password]}
    ELSE {}

\* a run of the command starts: the run before it has ended and its
\* AuthKit is gone, and authkit.New gives this run an AuthKit of its own,
\* with an empty directory; the command then makes the call
runStart(p, op, arg) ==
    /\ proc[p].pc = "idle"
    /\ budget > 0
    /\ users' = << >>
    /\ mutex' = [w |-> NoProc, r |-> {}]
    /\ proc' = [proc EXCEPT ![p] = [IdleProc EXCEPT !.pc = "call", !.op = op,
                                                    !.arg = arg]]
    /\ issued' = issued \cup Ran(p)
    /\ budget' = budget - 1
    /\ UNCHANGED <<config, now, entropy>>

\* authkit user register
runUserRegister(p, reqs) == \E req \in reqs : runStart(p, "RegisterUser", req)

\* authkit user login
runUserLogin(p, reqs) == \E req \in reqs : runStart(p, "LoginUser", req)

\* authkit user list
runUserList(p) == runStart(p, "ListUsers", NoArg)

\* the hashes handed out so far
Hashes == {i.hash : i \in {j \in issued : j.kind = "hash"}}

\* what a hashing call leaves behind: its hash, with the password and the
\* function it came from
Hashed(h, password, by) ==
    IF h.err = Nil
    THEN {[kind |-> "hash", hash |-> h.hash, password |-> password, by |-> by]}
    ELSE {}

\* (a *AuthKit) HashPassword called by p; the salt is read from crypto/rand
HashPasswordCall(p, pws) ==
    \E arg \in Args(p, "HashPassword", [Password : pws]), build \in BcryptBuilds :
        LET h == HashPassword(arg.Password, entropy + 1, build)
        IN  /\ entropy' = entropy + 1
            /\ issued' = issued \cup Hashed(h, arg.Password, "HashPassword")
            /\ proc' = [proc EXCEPT ![p] =
                           [IdleProc EXCEPT !.op = "HashPassword", !.arg = arg,
                                            !.ret = [err |-> h.err, Hash |-> h.hash]]]
            /\ budget' = Spend(p)
            /\ UNCHANGED <<config, users, mutex, now>>

\* HashPasswordStatic called by p
HashPasswordStaticCall(p, pws, costs) ==
    \E arg \in Args(p, "HashPasswordStatic", [Password : pws, Cost : costs]),
       build \in BcryptBuilds :
        LET h == HashPasswordStatic(arg.Password, arg.Cost, entropy + 1, build)
        IN  /\ entropy' = entropy + 1
            /\ issued' = issued \cup Hashed(h, arg.Password, "HashPasswordStatic")
            /\ proc' = [proc EXCEPT ![p] =
                           [IdleProc EXCEPT !.op = "HashPasswordStatic", !.arg = arg,
                                            !.ret = [err |-> h.err, Hash |-> h.hash]]]
            /\ budget' = Spend(p)
            /\ UNCHANGED <<config, users, mutex, now>>

\* (a *AuthKit) ComparePassword called by p
ComparePasswordCall(p, hashes, pws) ==
    \E arg \in Args(p, "ComparePassword", [Hash : hashes, Password : pws]) :
        /\ proc' = [proc EXCEPT ![p] =
                       [IdleProc EXCEPT !.op = "ComparePassword", !.arg = arg,
                                        !.ret = [ok |-> ComparePassword(arg.Hash,
                                                                        arg.Password)]]]
        /\ budget' = Spend(p)
        /\ UNCHANGED <<config, users, mutex, now, entropy, issued>>

\* ComparePasswordStatic called by p
ComparePasswordStaticCall(p, hashes, pws) ==
    \E arg \in Args(p, "ComparePasswordStatic", [Hash : hashes, Password : pws]) :
        /\ proc' = [proc EXCEPT ![p] =
                       [IdleProc EXCEPT !.op = "ComparePasswordStatic", !.arg = arg,
                                        !.ret = [ok |-> ComparePasswordStatic(arg.Hash,
                                                                              arg.Password)]]]
        /\ budget' = Spend(p)
        /\ UNCHANGED <<config, users, mutex, now, entropy, issued>>

\* GenerateCustomToken takes no lock and changes nothing of the directory
GenerateCustomTokenCall(p, ids, maps, ttls) ==
    \E arg \in Args(p, "GenerateCustomToken",
                    [UserID : ids, Claims : maps, Expiry : ttls]) :
        LET token == GenerateCustomToken(arg.UserID, arg.Claims, arg.Expiry,
                                         entropy + 1, now)
        IN  /\ entropy' = entropy + 1
            /\ issued' = issued \cup {[tok |-> token, kind |-> "custom",
                                       subject |-> arg.UserID,
                                       claims |-> arg.Claims,
                                       expiry |-> arg.Expiry, at |-> now]}
            /\ proc' = [proc EXCEPT ![p] =
                           [IdleProc EXCEPT !.op = "GenerateCustomToken",
                                            !.arg = arg,
                                            !.ret = [err |-> Nil, Token |-> token]]]
            /\ budget' = Spend(p)
            /\ UNCHANGED <<config, users, mutex, now>>

\* the custom tokens handed out so far
CustomTokens == {i.tok : i \in {j \in issued : j.kind = "custom"}}

\* RefreshToken up to the parse: an error returns, success goes on
RefreshTokenParse(p, pool) ==
    \E arg \in Args(p, "RefreshToken", [Token : pool]) :
        LET r == RefreshParse(arg.Token, now)
        IN  /\ proc' = IF r.err # Nil
                       THEN [proc EXCEPT ![p] =
                                [IdleProc EXCEPT !.op = "RefreshToken",
                                                 !.arg = arg,
                                                 !.ret = r]]
                       ELSE [proc EXCEPT ![p] =
                                [IdleProc EXCEPT !.pc = "parsed",
                                                 !.op = "RefreshToken",
                                                 !.arg = arg,
                                                 !.user = r.claims.Subject]]
            /\ budget' = Spend(p)
            /\ UNCHANGED <<config, users, mutex, now, entropy, issued>>

\* the lookup whose failure is reported as an invalid token
RefreshTokenGetUser_WrongError(p) ==
    /\ proc[p].pc = "parsed"
    /\ CanRLock
    /\ proc' = IF proc[p].user \notin DOMAIN users
               THEN [proc EXCEPT ![p].pc = "idle", ![p].user = NoID,
                                 ![p].ret = [err |-> ErrInvalidToken, at |-> now]]
               ELSE [proc EXCEPT ![p].pc = "found"]
    /\ UNCHANGED <<config, users, mutex, now, entropy, issued, budget>>

\* user, err := a.GetUserByID(claims.Subject): RLock, the lookup, RUnlock
RefreshTokenGetUser(p) ==
    /\ proc[p].pc = "parsed"
    /\ CanRLock
    /\ proc' = IF proc[p].user \notin DOMAIN users
               THEN [proc EXCEPT ![p].pc = "idle", ![p].user = NoID,
                                 ![p].ret = [err |-> ErrUserNotFound, at |-> now]]
               ELSE [proc EXCEPT ![p].pc = "found"]
    /\ UNCHANGED <<config, users, mutex, now, entropy, issued, budget>>

\* the callers inside the critical section of UpdateUser on record id
Writers(id) ==
    {q \in Procs : /\ proc[q].pc = "locked"
                   /\ proc[q].op = "UpdateUser"
                   /\ proc[q].arg.ID = id}

\* what a read without the lock can see of a record that UpdateUser is
\* assigning to: each field as it was or as it will be
Mixtures(old, new) ==
    {[old EXCEPT !.Name = n, !.Role = r, !.Permissions = pm, !.Metadata = md,
                 !.UpdatedAt = u] :
        n \in {old.Name, new.Name}, r \in {old.Role, new.Role},
        pm \in {old.Permissions, new.Permissions},
        md \in {old.Metadata, new.Metadata}, u \in {old.UpdatedAt, new.UpdatedAt}}

\* the records p can read through its pointer: the record itself, or, while
\* a writer is inside UpdateUser on it, any mixture (a data race)
Views(p) ==
    IF proc[p].user \in DOMAIN users /\ Writers(proc[p].user) # {}
    THEN UNION {Mixtures(users[proc[p].user],
                         ApplyUpdates(users[proc[p].user], proc[q].arg.Updates, now)) :
                   q \in Writers(proc[p].user)}
    ELSE {Deref(p)}

\* the new tokens, minted from the record behind the pointer, no lock held
RefreshTokenMint(p) ==
    /\ proc[p].pc = "found"
    /\ \E user \in Views(p) :
       LET accessToken == GenerateAccessToken(user, entropy + 1, now)
           newRefreshToken == GenerateRefreshToken(user, entropy + 2, now)
       IN  /\ entropy' = entropy + 2
           /\ issued' = issued \cup Minted(user, accessToken, newRefreshToken)
                               \cup Refreshes(proc[p].arg.Token, newRefreshToken)
           /\ proc' = [proc EXCEPT ![p].pc = "idle", ![p].user = NoID,
                                   ![p].gone = NoUser,
                                   ![p].ret = TokenResponse(user, accessToken,
                                                            newRefreshToken, now)]
    /\ UNCHANGED <<config, users, mutex, now, budget>>

\* time passes
Tick ==
    /\ now < MaxNow
    /\ now' = now + 1
    /\ UNCHANGED <<config, users, mutex, proc, entropy, issued, budget>>

---------------------------------------------------------------------------
(* Specifications *)

\* the Config values handed to New
Configs ==
    [JWTSecret : {"s1"}, TokenExpiry : {<<1, "s">>}, RefreshExpiry : {<<7, "d">>},
     BCryptCost : {0}, RateLimitRPM : {0}, EmailRequired : BOOLEAN]

InitWith(cfgs, free, calls) ==
    /\ config \in {New(c) : c \in cfgs}
    /\ users = << >>
    /\ mutex = [w |-> NoProc, r |-> {}]
    /\ proc = [p \in Procs |-> IF p <= free THEN IdleProc ELSE OffProc]
    /\ now = 0
    /\ entropy = 0
    /\ issued = {}
    /\ budget = calls

\* any number of callers of the directory and of login / refresh
Init == InitWith(Configs, FreeProcs, MaxCalls)

Next ==
    \E p \in Procs :
        \/ RegisterUserLock(p, RegisterRequests)
        \/ RegisterUserBody(p)
        \/ LoginUserRLock(p, LoginRequests)
        \/ LoginUserBody(p)
        \/ UpdateUserLock(p, KnownIds, UpdateMaps)
        \/ UpdateUserBody(p)
        \/ DeleteUserLock(p, KnownIds)
        \/ DeleteUserBody(p)
        \/ RefreshTokenParse(p, IssuedTokens)
        \/ RefreshTokenGetUser(p)
        \/ RefreshTokenMint(p)

Spec == Init /\ [][Next]_vars

\* one caller, the clock, and token strings of any make
TokenConfigs ==
    [JWTSecret : {"s1"}, TokenExpiry : {<<1, "s">>}, RefreshExpiry : {<<2, "s">>},
     BCryptCost : {0}, RateLimitRPM : {0}, EmailRequired : {FALSE}]

\* the requests of the one caller
TokenRegisterRequests ==
    {[Email |-> "a@x", Password |-> "pw1", Name |-> "Ann", Role |-> "", Metadata |-> {}]}
TokenLoginRequests == {[Email |-> "a@x", Password |-> "pw1"]}
TokenUpdateMaps == {[role |-> Str("admin"), permissions |-> [t |-> "[]string", v |-> <<"read">>]]}

InitToken == InitWith(TokenConfigs, 1, MaxTokenCalls)

NextToken ==
    \/ \E p \in Procs :
        \/ RegisterUserLock(p, TokenRegisterRequests)
        \/ RegisterUserBody(p)
        \/ LoginUserRLock(p, TokenLoginRequests)
        \/ LoginUserBody(p)
        \/ UpdateUserLock(p, DOMAIN users, TokenUpdateMaps)
        \/ UpdateUserBody(p)
        \/ DeleteUserLock(p, DOMAIN users)
        \/ DeleteUserBody(p)
        \/ ValidateTokenCall(p, Presentable)
        \/ RefreshTokenParse(p, Presentable)
        \/ RefreshTokenGetUser(p)
        \/ RefreshTokenMint(p)
    \/ Tick

SpecToken == InitToken /\ [][NextToken]_vars

TypeOK ==
    /\ \A id \in DOMAIN users : users[id].ID = id
    /\ entropy \in Nat
    /\ budget \in Nat
    /\ now \in 0..MaxNow

\* one caller under each way of writing the two lifetimes: left empty, with
\* a unit time.ParseDuration knows, and with the day suffix of the Config
\* comments
ExpiryConfigs ==
    [JWTSecret : {"s1"},
     TokenExpiry : {<< >>, <<15, "m">>, <<1, "d">>},
     RefreshExpiry : {<< >>, <<24, "h">>, <<30, "d">>},
     BCryptCost : {0}, RateLimitRPM : {0}, EmailRequired : {FALSE}]

InitExpiry == InitWith(ExpiryConfigs, 1, MaxCalls)

NextExpiry ==
    \E p \in Procs :
        \/ RegisterUserLock(p, TokenRegisterRequests)
        \/ RegisterUserBody(p)
        \/ LoginUserRLock(p, TokenLoginRequests)
        \/ LoginUserBody(p)
        \/ RefreshTokenParse(p, IssuedTokens)
        \/ RefreshTokenGetUser(p)
        \/ RefreshTokenMint(p)

SpecExpiry == InitExpiry /\ [][NextExpiry]_vars

\* the claim maps of the caller of GenerateCustomToken: none, a role, a
\* role with another subject, with permissions that are one string, with
\* a token id, with a member no struct knows, a role that is a number, and
\* a role with an expiry
CustomMaps ==
    {<< >>,
     [role |-> Str("admin")],
     [role |-> Str("admin"), user_id |-> Str(2)],
     [role |-> Str("admin"), permissions |-> Str("read")],
     [role |-> Str("admin"), jti |-> Str(1000)],
     [role |-> Str("admin"), dept |-> Str("ops")],
     [role |-> Num(1)],
     [role |-> Str("admin"), exp |-> Num(0)]}

\* the expiry durations of the caller, in ticks
CustomExpiries == {2, 3}

\* one caller that has custom tokens made and validated while time passes
InitCustom == InitWith(TokenConfigs, 1, MaxCustomCalls)

NextCustom ==
    \/ \E p \in Procs :
        \/ GenerateCustomTokenCall(p, {1}, CustomMaps, CustomExpiries)
        \/ ValidateTokenCall(p, CustomTokens)
    \/ Tick

SpecCustom == InitCustom /\ [][NextCustom]_vars

\* the claim maps with and without a token id of the caller's, which is
\* none of the identifiers uuid.New() gives
JtiMaps == {<< >>, [jti |-> Str(1000)]}

\* one caller that logs in, refreshes and has custom tokens made while time
\* passes
InitFresh == InitWith(TokenConfigs, 1, MaxTokenCalls)

NextFresh ==
    \/ \E p \in Procs :
        \/ RegisterUserLock(p, TokenRegisterRequests)
        \/ RegisterUserBody(p)
        \/ LoginUserRLock(p, TokenLoginRequests)
        \/ LoginUserBody(p)
        \/ RefreshTokenParse(p, IssuedTokens)
        \/ RefreshTokenGetUser(p)
        \/ RefreshTokenMint(p)
        \/ GenerateCustomTokenCall(p, DOMAIN users, JtiMaps, {TicksPerSecond})
    \/ Tick

SpecFresh == InitFresh /\ [][NextFresh]_vars

\* one caller of the password functions, with the default cost and the
\* least one
PasswordConfigs ==
    [JWTSecret : {"s1"}, TokenExpiry : {<<1, "s">>}, RefreshExpiry : {<<2, "s">>},
     BCryptCost : {0, BcryptCost.Min}, RateLimitRPM : {0}, EmailRequired : {FALSE}]

\* the costs handed to HashPasswordStatic: none, and the greatest
StaticCosts == {0, BcryptCost.Max}

InitPassword == InitWith(PasswordConfigs, 1, MaxPasswordCalls)

NextPassword ==
    \E p \in Procs :
        \/ HashPasswordCall(p, DOMAIN PasswordBytes)
        \/ HashPasswordStaticCall(p, DOMAIN PasswordBytes, StaticCosts)
        \/ ComparePasswordCall(p, Hashes, DOMAIN PasswordBytes)
        \/ ComparePasswordStaticCall(p, Hashes, DOMAIN PasswordBytes)

SpecPassword == InitPassword /\ [][NextPassword]_vars

\* one client of a server whose route groups use the middlewares
HTTPRegisterRequests ==
    [Email : {"a@x"}, Password : {"pw1"}, Name : Names, Role : {"user", "admin"},
     Metadata : {{}}]
HTTPUpdateMaps == {[permissions |-> [t |-> "[]string", v |-> <<"read">>]]}
Guards ==
    {NoGuard,
     [NoGuard EXCEPT !.kind = "role", !.role = "admin"],
     [NoGuard EXCEPT !.kind = "roles", !.roles = {"admin", "moderator"}],
     [NoGuard EXCEPT !.kind = "permission", !.permission = "read"]}
Forged == {[tok EXCEPT !.sig = EncodeSegment(<<"forged">>)] : tok \in IssuedTokens}
Headers ==
    {NoHeader}
    \cup [prefix : {"Bearer "}, token : Forged \cup {EmptyToken}]
    \cup [prefix : {"", "bearer "}, token : IssuedTokens]
Requests ==
    [auth : {TRUE}, header : Headers, guard : {NoGuard}]
    \cup [auth : {TRUE}, header : [prefix : {"Bearer "}, token : IssuedTokens],
          guard : Guards]
    \cup [auth : {FALSE}, header : {NoHeader}, guard : Guards]

InitHTTP == InitWith(TokenConfigs, 1, MaxHTTPCalls)

NextHTTP ==
    \/ \E p \in Procs :
        \/ RegisterUserLock(p, HTTPRegisterRequests)
        \/ RegisterUserBody(p)
        \/ UpdateUserLock(p, DOMAIN users, HTTPUpdateMaps)
        \/ UpdateUserBody(p)
        \/ LoginUserRLock(p, TokenLoginRequests)
        \/ LoginUserBody(p)
        \/ GinRequest(p, Requests)
        \/ FiberRequest(p, Requests)
    \/ Tick

SpecHTTP == InitHTTP /\ [][NextHTTP]_vars

\* a user who registers with role "user" and then uses only the endpoints
\* open to every user: login, refresh, PUT /profile, and a try at the admin
\* routes, all with the tokens the service gave them
ProfileRegisterRequests ==
    {[Email |-> "a@x", Password |-> "pw1", Name |-> "Ann", Role |-> "user",
      Metadata |-> {}]}
ProfileBodies ==
    {[bind |-> TRUE,  updates |-> [role |-> Str("admin")]],
     [bind |-> TRUE,  updates |-> [name |-> Str("Bob"), email |-> Str("b@x"),
                                   password |-> Str("pw2")]],
     [bind |-> TRUE,  updates |-> [permissions |-> [t |-> "[]interface{}",
                                                    v |-> <<"read">>]]],
     [bind |-> FALSE, updates |-> [raw |-> Str("")]]}
OwnHeaders == [prefix : {"Bearer "}, token : IssuedTokens]
ProfileRequests == [header : OwnHeaders, body : ProfileBodies]
AdminRequests ==
    [auth : {TRUE}, header : OwnHeaders,
     guard : {[NoGuard EXCEPT !.kind = "role", !.role = "admin"]}]

InitProfile == InitWith(TokenConfigs, 1, MaxProfileCalls)

NextProfile ==
    \E p \in Procs :
        \/ RegisterUserLock(p, ProfileRegisterRequests)
        \/ RegisterUserBody(p)
        \/ LoginUserRLock(p, TokenLoginRequests)
        \/ LoginUserBody(p)
        \/ RefreshTokenParse(p, IssuedTokens)
        \/ RefreshTokenGetUser(p)
        \/ RefreshTokenMint(p)
        \/ UpdateProfileHandler(p, ProfileRequests)
        \/ UpdateProfileHandlerFiber(p, ProfileRequests)
        \/ UpdateUserBody(p)
        \/ GinRequest(p, AdminRequests)
        \/ FiberRequest(p, AdminRequests)

SpecProfile == InitProfile /\ [][NextProfile]_vars

\* one caller who registers and then updates with maps of which some
\* entries have an unknown key or a value of another type than the field
MixedMaps ==
    { [name |-> Num("7")],
      [role |-> Num("7")],
      [name |-> Str("Bob"), role |-> Num("7"), nickname |-> Str("Bobby")],
      [permissions |-> [t |-> "[]interface{}", v |-> <<"read">>]],
      [permissions |-> Str("read"), role |-> Str("admin")],
      [metadata |-> [t |-> "string", v |-> {"k"}]],
      [name |-> Str("Bob"), role |-> Str("admin"),
       permissions |-> [t |-> "[]string", v |-> <<"read">>],
       metadata |-> [t |-> "map", v |-> {"k"}]] }

InitUpdate == InitWith(TokenConfigs, 1, MaxCalls)

NextUpdate ==
    \/ \E p \in Procs :
        \/ RegisterUserLock(p, TokenRegisterRequests)
        \/ RegisterUserBody(p)
        \/ UpdateUserLock(p, DOMAIN users, MixedMaps)
        \/ UpdateUserBody(p)
    \/ Tick

SpecUpdate == InitUpdate /\ [][NextUpdate]_vars

\* one caller of every operation of the service
LiveUsers == {users[id] : id \in DOMAIN users}

InitFrame == InitWith(TokenConfigs, 1, MaxCalls)

NextFrame ==
    \E p \in Procs :
        \/ RegisterUserLock(p, TokenRegisterRequests)
        \/ RegisterUserBody(p)
        \/ UpdateUserLock(p, DOMAIN users, TokenUpdateMaps)
        \/ UpdateUserBody(p)
        \/ DeleteUserLock(p, DOMAIN users)
        \/ DeleteUserBody(p)
        \/ LoginUserRLock(p, LoginRequests)
        \/ LoginUserBody(p)
        \/ RefreshTokenParse(p, IssuedTokens \cup {MalformedToken})
        \/ RefreshTokenGetUser(p)
        \/ RefreshTokenMint(p)
        \/ ValidateTokenCall(p, IssuedTokens \cup {MalformedToken})
        \/ GenerateAccessTokenCall(p, LiveUsers)
        \/ GenerateRefreshTokenCall(p, LiveUsers)
        \/ GenerateCustomTokenCall(p, KnownIds, JtiMaps, {TicksPerSecond})
        \/ GetUserByIDCall(p, KnownIds)
        \/ GetUserByEmailCall(p, {"a@x", "b@x"})
        \/ ListUsersCall(p)

SpecFrame == InitFrame /\ [][NextFrame]_vars

\* concurrent callers of the operations that take the directory lock; each
\* caller first reaches its call and then makes it when the lock allows
LockingCalls ==
    [op : {"RegisterUser"}, arg : TokenRegisterRequests]
    \cup [op : {"LoginUser"}, arg : TokenLoginRequests]
    \cup [op : {"UpdateUser"}, arg : [ID : DOMAIN users, Updates : TokenUpdateMaps]]
    \cup [op : {"DeleteUser"}, arg : [ID : DOMAIN users]]
    \cup [op : {"RefreshToken"}, arg : [Token : IssuedTokens]]
    \cup [op : {"GetUserByID"}, arg : [ID : DOMAIN users]]
    \cup [op : {"GetUserByEmail"}, arg : [Email : {"a@x"}]]
    \cup [op : {"ListUsers"}, arg : {NoArg}]

\* the steps of the call that p has reached
CallStep(p) ==
    \/ RegisterUserLock(p, {})
    \/ RegisterUserBody(p)
    \/ LoginUserRLock(p, {})
    \/ LoginUserBody(p)
    \/ UpdateUserLock(p, {}, {})
    \/ UpdateUserBody(p)
    \/ DeleteUserLock(p, {})
    \/ DeleteUserBody(p)
    \/ RefreshTokenParse(p, {})
    \/ RefreshTokenGetUser(p)
    \/ RefreshTokenMint(p)
    \/ GetUserByIDCall(p, {})
    \/ GetUserByEmailCall(p, {})
    \/ ListUsersCall(p)

InitLive == InitWith(TokenConfigs, FreeProcs, MaxLiveCalls)

NextLive ==
    \E p \in Procs :
        \/ CallStart(p, LockingCalls)
        \/ CallStep(p)

\* the Go scheduler runs every goroutine that can run: a call that stays
\* able to take its next step takes it
Fairness == \A p \in Procs : WF_vars(CallStep(p))

SpecLive == InitLive /\ [][NextLive]_vars /\ Fairness

\* the Config of the commands, and the flags of the shell user
CLIConfigs ==
    [JWTSecret : {"s1"}, TokenExpiry : {<<24, "h">>}, RefreshExpiry : {<< >>},
     BCryptCost : {12}, RateLimitRPM : {0}, EmailRequired : {FALSE}]

CLIRegisterRequests ==
    [Email : {"a@x", "b@x"}, Password : {"pw1"}, Name : Names, Role : {"user"},
     Metadata : {{}}]

\* a shell user who runs the command several times
InitCLI == InitWith(CLIConfigs, 1, MaxCLIRuns)

NextCLI ==
    \E p \in Procs :
        \/ runUserRegister(p, CLIRegisterRequests)
        \/ runUserLogin(p, LoginRequests)
        \/ runUserList(p)
        \/ RegisterUserLock(p, {})
        \/ RegisterUserBody(p)
        \/ LoginUserRLock(p, {})
        \/ LoginUserBody(p)
        \/ ListUsersCall(p)

SpecCLI == InitCLI /\ [][NextCLI]_vars

\* two clients of POST /login after one registration
InitLogin == InitWith(TokenConfigs, FreeProcs, MaxCalls)

NextLogin ==
    \E p \in Procs :
        \/ RegisterUserLock(p, TokenRegisterRequests)
        \/ RegisterUserBody(p)
        \/ LoginHandlerCall(p, LoginBodies)
        \/ LoginUserBody(p)

SpecLogin == InitLogin /\ [][NextLogin]_vars

\* the costs of the caller: none, a negative one, and the ones at and next
\* to the limits of bcrypt
Costs ==
    {-1, 0, BcryptCost.Min - 1, BcryptCost.Min, BcryptCost.Max, BcryptCost.Max + 1}

CostConfigs ==
    [JWTSecret : {"s1"}, TokenExpiry : {<<1, "s">>}, RefreshExpiry : {<<2, "s">>},
     BCryptCost : Costs, RateLimitRPM : {0}, EmailRequired : {FALSE}]

\* one caller that hashes one password under every cost
InitCost == InitWith(CostConfigs, 1, MaxPasswordCalls)

NextCost ==
    \E p \in Procs :
        \/ HashPasswordCall(p, {"pw1"})
        \/ HashPasswordStaticCall(p, {"pw1"}, Costs)

SpecCost == InitCost /\ [][NextCost]_vars

\* two callers that register, log in, refresh and update, with an update
\* that assigns two fields
InitRace == InitWith(TokenConfigs, FreeProcs, MaxTokenCalls)

NextRace ==
    \E p \in Procs :
        \/ RegisterUserLock(p, TokenRegisterRequests)
        \/ RegisterUserBody(p)
        \/ LoginUserRLock(p, TokenLoginRequests)
        \/ LoginUserBody(p)
        \/ UpdateUserLock(p, DOMAIN users, TokenUpdateMaps)
        \/ UpdateUserBody(p)
        \/ RefreshTokenParse(p, IssuedTokens)
        \/ RefreshTokenGetUser(p)
        \/ RefreshTokenMint(p)

SpecRace == InitRace /\ [][NextRace]_vars

\* callers that register, update, delete and look up, with one email
InitLookup == InitWith(TokenConfigs, FreeProcs, MaxLookupCalls)

NextLookup ==
    \E p \in Procs :
        \/ RegisterUserLock(p, TokenRegisterRequests)
        \/ RegisterUserBody(p)
        \/ UpdateUserLock(p, DOMAIN users, TokenUpdateMaps)
        \/ UpdateUserBody(p)
        \/ DeleteUserLock(p, KnownIds)
        \/ DeleteUserBody(p)
        \/ GetUserByIDCall(p, KnownIds)
        \/ GetUserByEmailCall(p, {"a@x", "b@x"})
        \/ ListUsersCall(p)
        \/ CallerWrites(p)

SpecLookup == InitLookup /\ [][NextLookup]_vars

---------------------------------------------------------------------------
(* N concurrent registrations: every caller has fixed one RegisterUser     *)
(* call, the directory is empty, and nothing else runs.                    *)

ConcurrentRequests ==
    [Email : Emails, Password : {"pw1"}, Name : Names, Role : {""}, Metadata : {{}}]

InitRegister ==
    /\ config \in {New(c) : c \in Configs}
    /\ users = << >>
    /\ mutex = [w |-> NoProc, r |-> {}]
    /\ proc \in [Procs -> {[IdleProc EXCEPT !.pc = "call", !.op = "RegisterUser",
                                            !.arg = req] : req \in ConcurrentRequests}]
    /\ now = 0
    /\ entropy = 0
    /\ issued = {}
    /\ budget = 0

NextRegister ==
    \E p \in Procs :
        \/ RegisterUserLock(p, {})
        \/ RegisterUserBody(p)

SpecRegister == InitRegister /\ [][NextRegister]_vars

---------------------------------------------------------------------------
(* Claims about the directory *)

AllDone == \A p \in Procs : proc[p].pc = "idle"
Succeeded(p) == proc[p].pc = "idle" /\ "err" \in DOMAIN proc[p].ret /\ proc[p].ret.err = Nil
Failed(p, e) == proc[p].pc = "idle" /\ "err" \in DOMAIN proc[p].ret /\ proc[p].ret.err = e

\* C1: in every reachable state, after any interleaving of RegisterUser,
\* UpdateUser, DeleteUser, LoginUser and RefreshToken calls, no two live
\* records have the same email.
C1_EmailUnique ==
    \A i, j \in DOMAIN users : users[i].Email = users[j].Email => i = j

\* two live records, and an UpdateUser whose map carries an "email" key that
\* names the other record's email has succeeded
C1_Witness ==
    /\ Cardinality(DOMAIN users) = 2
    /\ \E p \in Procs :
        /\ Succeeded(p)
        /\ proc[p].op = "UpdateUser"
        /\ "email" \in DOMAIN proc[p].arg.Updates
        /\ proc[p].arg.ID \in DOMAIN users
        /\ \E j \in DOMAIN users :
              /\ j # proc[p].arg.ID
              /\ users[j].Email = proc[p].arg.Updates["email"].v

\* C2: a RegisterUser whose email is that of a live record returns
\* ErrUserAlreadyExists and leaves the directory as it was.
C2_DuplicateRejected ==
    [][\A p \in Procs :
          ( /\ proc[p].pc = "locked"
            /\ proc[p].op = "RegisterUser"
            /\ proc'[p].pc = "idle"
            /\ \E id \in DOMAIN users : users[id].Email = proc[p].arg.Email )
          => /\ proc'[p].ret = [err |-> ErrUserAlreadyExists]
             /\ users' = users]_vars

\* a RegisterUser has returned ErrUserAlreadyExists
C2_Witness ==
    \E p \in Procs :
        /\ proc[p].op = "RegisterUser"
        /\ Failed(p, ErrUserAlreadyExists)
        /\ \E id \in DOMAIN users : users[id].Email = proc[p].arg.Email

SameEmail == \A p, q \in Procs : proc[p].arg.Email = proc[q].arg.Email
DistinctEmails == \A p, q \in Procs : proc[p].arg.Email = proc[q].arg.Email => p = q

\* C3: N concurrent RegisterUser calls with one unregistered email: when all
\* have returned, exactly one succeeded, the others got ErrUserAlreadyExists,
\* and exactly one record has the email.
C3_OneWinner ==
    (AllDone /\ SameEmail) =>
        /\ Cardinality({p \in Procs : Succeeded(p)}) = 1
        /\ \A p \in Procs : Succeeded(p) \/ Failed(p, ErrUserAlreadyExists)
        /\ \A p \in Procs :
              Cardinality({id \in DOMAIN users : users[id].Email = proc[p].arg.Email}) = 1

C3_Witness == AllDone /\ SameEmail /\ NumProcs > 1

\* C4: N concurrent RegisterUser calls with pairwise distinct unregistered
\* emails: all succeed with pairwise distinct ids and ListUsers then has
\* exactly N entries, one per email.
C4_AllSucceed ==
    (AllDone /\ DistinctEmails) =>
        /\ \A p \in Procs : Succeeded(p)
        /\ \A p, q \in Procs : proc[p].ret.User.ID = proc[q].ret.User.ID => p = q
        /\ Cardinality(ListUsers) = NumProcs
        /\ \A p \in Procs :
              Cardinality({u \in ListUsers : u.Email = proc[p].arg.Email}) = 1

C4_Witness == AllDone /\ DistinctEmails /\ NumProcs > 1

---------------------------------------------------------------------------
(* Claims about the tokens *)

Payload(tok) == DecodeSegment(tok.payload)
Header(tok) == DecodeSegment(tok.header)

\* p's last call was ValidateToken, and it has returned
Validated(p) == proc[p].pc = "idle" /\ proc[p].op = "ValidateToken"

\* p's last call is RefreshToken: it has returned, or is past the parse
Refreshing(p) == proc[p].op = "RefreshToken" /\ proc[p].pc \in {"idle", "parsed", "found"}

\* that RefreshToken call was refused at the parse with ErrInvalidToken
RefreshRefused(p) == proc[p].pc = "idle" /\ proc[p].ret.err = ErrInvalidToken

\* C5: ValidateToken, before expiry, on an access token that LoginUser or
\* GenerateAccessToken minted succeeds, and its claims carry the UserID,
\* Email, Role and Permissions the record had when the token was minted.
C5_AccessRoundTrip ==
    \A p \in Procs, i \in issued :
        ( /\ Validated(p)
          /\ i.kind = "access"
          /\ proc[p].arg.Token = i.tok
          /\ proc[p].ret.at < DateTicks(Payload(i.tok).exp) )
        => /\ proc[p].ret.err = Nil
           /\ proc[p].ret.claims.UserID = i.user.ID
           /\ proc[p].ret.claims.Email = i.user.Email
           /\ proc[p].ret.claims.Role = i.user.Role
           /\ proc[p].ret.claims.Permissions = i.user.Permissions

\* an access token was validated after UpdateUser changed its user's role
C5_Witness ==
    \E p \in Procs, i \in issued :
        /\ Validated(p)
        /\ i.kind = "access"
        /\ proc[p].arg.Token = i.tok
        /\ proc[p].ret.err = Nil
        /\ i.user.ID \in DOMAIN users
        /\ users[i.user.ID].Role # i.user.Role

\* C6: ValidateToken on a token that parses and is correctly signed but whose
\* expires-at has passed returns ErrTokenExpired, not ErrInvalidToken.
C6_ExpiredIsDistinguished ==
    \A p \in Procs, i \in issued :
        ( /\ Validated(p)
          /\ proc[p].arg.Token = i.tok
          /\ proc[p].ret.at >= DateTicks(Payload(i.tok).exp) )
        => proc[p].ret.err = ErrTokenExpired

\* C7 as stated: a correctly signed access token is accepted at clock value
\* now exactly when nbf <= now <= exp.
C7_InclusiveWindow ==
    \A p \in Procs, i \in issued :
        (Validated(p) /\ i.kind = "access" /\ proc[p].arg.Token = i.tok)
        => ( proc[p].ret.err = Nil
             <=> /\ DateTicks(Payload(i.tok).nbf) <= proc[p].ret.at
                 /\ proc[p].ret.at <= DateTicks(Payload(i.tok).exp) )

\* C7, amended: a correctly signed access token is accepted at clock value
\* now exactly when nbf <= now < exp; the clock never runs back, so a token
\* refused for now >= exp is refused at every later clock value.
C7_HalfOpenWindow ==
    \A p \in Procs, i \in issued :
        (Validated(p) /\ i.kind = "access" /\ proc[p].arg.Token = i.tok)
        => /\ proc[p].ret.err = Nil
              <=> /\ DateTicks(Payload(i.tok).nbf) <= proc[p].ret.at
                  /\ proc[p].ret.at < DateTicks(Payload(i.tok).exp)
           /\ proc[p].ret.at <= now

\* an access token was refused at the very instant exp
C7_Witness ==
    \E p \in Procs, i \in issued :
        /\ Validated(p)
        /\ i.kind = "access"
        /\ proc[p].arg.Token = i.tok
        /\ proc[p].ret.at = DateTicks(Payload(i.tok).exp)
        /\ proc[p].ret.err = ErrInvalidToken

\* tok is a string that signing with the configured secret produces
SignedWithSecret(tok) ==
    /\ tok.parts = 3
    /\ Header(tok).alg \in HMACMethods
    /\ tok.sig = EncodeSegment(HMACSign(Header(tok).alg, <<tok.header, tok.payload>>,
                                        config.JWTSecret))

\* tok's signature segment decodes to the MAC of its first two segments
\* under the configured secret
DecodesToMAC(tok) ==
    /\ tok.parts = 3
    /\ Header(tok).alg \in HMACMethods
    /\ DecodeSegment(tok.sig) = HMACSign(Header(tok).alg, <<tok.header, tok.payload>>,
                                         config.JWTSecret)

\* C8 as stated: ValidateToken and RefreshToken return ErrInvalidToken for
\* every string that is not a token signed with the configured secret, any
\* altered signature included.
C8_UnsignedRejected ==
    \A p \in Procs :
        /\ (Validated(p) /\ ~SignedWithSecret(proc[p].arg.Token))
              => proc[p].ret.err = ErrInvalidToken
        /\ (Refreshing(p) /\ ~SignedWithSecret(proc[p].arg.Token))
              => RefreshRefused(p)

\* C8, amended: ValidateToken and RefreshToken return ErrInvalidToken for
\* every string that is malformed, names a method outside the HMAC family,
\* or whose signature segment does not decode to the MAC of its header and
\* payload segments under the configured secret.
C8_ForgedRejected ==
    \A p \in Procs :
        /\ (Validated(p) /\ ~DecodesToMAC(proc[p].arg.Token))
              => proc[p].ret.err = ErrInvalidToken
        /\ (Refreshing(p) /\ ~DecodesToMAC(proc[p].arg.Token))
              => RefreshRefused(p)

\* a token signed with another secret was presented to ValidateToken
C8_Witness ==
    \E p \in Procs :
        /\ Validated(p)
        /\ Header(proc[p].arg.Token).alg = "HS256"
        /\ DecodeSegment(proc[p].arg.Token.sig) \in
              {HMACSign("HS256", <<proc[p].arg.Token.header, proc[p].arg.Token.payload>>, k) :
                  k \in Secrets \ {config.JWTSecret}}
        /\ proc[p].ret.err = ErrInvalidToken

\* C9: a token whose header names a method outside the HMAC family is
\* refused with ErrInvalidToken by ValidateToken and RefreshToken, and the
\* key function has not returned the secret.
C9_NonHMACRejected ==
    \A p \in Procs :
        ( /\ Validated(p) \/ Refreshing(p)
          /\ proc[p].arg.Token.parts = 3
          /\ Header(proc[p].arg.Token).alg \notin HMACMethods )
        => /\ proc[p].pc = "idle"
           /\ proc[p].ret.err = ErrInvalidToken
           /\ ~proc[p].ret.keyGiven

\* a token with method "none" made from an issued token was refused
C9_Witness ==
    \E p \in Procs :
        /\ Validated(p)
        /\ Header(proc[p].arg.Token).alg = "none"
        /\ proc[p].ret.err = ErrInvalidToken
        /\ ~proc[p].ret.keyGiven

\* C10: ValidateToken never succeeds on a token GenerateRefreshToken minted,
\* and RefreshToken never succeeds on a token GenerateAccessToken minted.
C10_ClassesSeparate ==
    \A p \in Procs, i \in issued :
        /\ (Validated(p) /\ i.kind = "refresh" /\ proc[p].arg.Token = i.tok)
              => proc[p].ret.err # Nil
        /\ ( /\ proc[p].op = "RefreshToken"
             /\ proc[p].pc = "idle"
             /\ i.kind = "access"
             /\ proc[p].arg.Token = i.tok )
              => proc[p].ret.err # Nil

\* p's last call was RefreshToken, and it has returned
Refreshed(p) == proc[p].pc = "idle" /\ proc[p].op = "RefreshToken"

\* the refresh token of entry i is within its validity window at tick t
Unexpired(i, t) ==
    /\ DateTicks(Payload(i.tok).nbf) <= t
    /\ t < DateTicks(Payload(i.tok).exp)

\* C11: RefreshToken on an unexpired refresh token whose user DeleteUser has
\* removed returns ErrUserNotFound, and the call mints no tokens.
C11_DeletedCannotRefresh ==
    /\ [](\A p \in Procs, i \in issued :
            ( /\ Refreshed(p)
              /\ i.kind = "refresh"
              /\ proc[p].arg.Token = i.tok
              /\ i.user.ID \notin DOMAIN users
              /\ Unexpired(i, proc[p].ret.at) )
            => proc[p].ret.err = ErrUserNotFound)
    /\ [][\A p \in Procs :
            ( /\ proc[p].op = "RefreshToken"
              /\ proc[p].pc = "parsed"
              /\ proc[p].user \notin DOMAIN users
              /\ proc'[p] # proc[p] )
            => /\ proc'[p].pc = "idle"
               /\ proc'[p].ret.err = ErrUserNotFound
               /\ issued' = issued]_vars

\* a refresh of an unexpired token was refused after its user was deleted
C11_Witness ==
    \E p \in Procs, i \in issued :
        /\ Refreshed(p)
        /\ i.kind = "refresh"
        /\ proc[p].arg.Token = i.tok
        /\ i.user.ID \notin DOMAIN users
        /\ Unexpired(i, proc[p].ret.at)
        /\ proc[p].ret.err = ErrUserNotFound

\* the claims ValidateToken returns carry the record of entry i
CarriesRecord(claims, i) ==
    /\ claims.UserID = i.user.ID
    /\ claims.Email = i.user.Email
    /\ claims.Role = i.user.Role
    /\ claims.Permissions = i.user.Permissions

\* C12: whatever the directory has become, ValidateToken accepts every
\* unexpired issued access token with the claims of its issuance, and a
\* result once returned is the result for that token and clock value in
\* the directory of any later state.
C12_NoRevocation ==
    /\ \A i \in issued :
          (i.kind = "access" /\ Unexpired(i, now))
          => /\ ValidateToken(i.tok, now).err = Nil
             /\ CarriesRecord(ValidateToken(i.tok, now).claims, i)
    /\ \A p \in Procs :
          Validated(p) => proc[p].ret = ValidateToken(proc[p].arg.Token, proc[p].ret.at)

\* an access token was accepted after DeleteUser removed its subject
C12_Witness ==
    \E p \in Procs, i \in issued :
        /\ Validated(p)
        /\ i.kind = "access"
        /\ proc[p].arg.Token = i.tok
        /\ i.user.ID \notin DOMAIN users
        /\ proc[p].ret.err = Nil
        /\ CarriesRecord(proc[p].ret.claims, i)

\* the record of entry i's user is live and its role is no longer the one
\* it had when the token of i was minted
RoleChangedSince(i) ==
    /\ i.user.ID \in DOMAIN users
    /\ users[i.user.ID].Role # i.user.Role

\* C13: once UpdateUser has changed a user's role, every access token
\* minted for the user before the change still validates until its expiry
\* and carries the role of its issuance, not the new one.
C13_RoleChangeKeepsTokens ==
    \A i \in issued :
        (i.kind = "access" /\ RoleChangedSince(i) /\ Unexpired(i, now))
        => /\ ValidateToken(i.tok, now).err = Nil
           /\ ValidateToken(i.tok, now).claims.Role = i.user.Role
           /\ \A p \in Procs :
                 (Validated(p) /\ proc[p].arg.Token = i.tok /\ Unexpired(i, proc[p].ret.at))
                 => /\ proc[p].ret.err = Nil
                    /\ proc[p].ret.claims.Role = i.user.Role

\* a token minted for role "user" was validated, and returned "user", after
\* UpdateUser made the user an admin
C13_Witness ==
    \E p \in Procs, i \in issued :
        /\ Validated(p)
        /\ i.kind = "access"
        /\ proc[p].arg.Token = i.tok
        /\ RoleChangedSince(i)
        /\ users[i.user.ID].Role = "admin"
        /\ users[i.user.ID].UpdatedAt >= DateTicks(Payload(i.tok).iat)
        /\ proc[p].ret.err = Nil
        /\ proc[p].ret.claims.Role = "user"

\* the subject a token string names
Subject(tok) == Payload(tok).sub

\* C14: a successful RefreshToken mints an access token whose user_id,
\* email, role and permissions are those of the subject's record as the
\* directory holds it at the refresh, and a new refresh token for the same
\* subject.
C14_RefreshReadsDirectory ==
    \A p \in Procs :
        (Refreshed(p) /\ proc[p].ret.err = Nil)
        => LET sub == Subject(proc[p].arg.Token)
               access == Payload(proc[p].ret.AccessToken)
               refresh == Payload(proc[p].ret.RefreshToken)
           IN  /\ sub \in DOMAIN users
               /\ access.user_id = sub
               /\ access.email = users[sub].Email
               /\ access.role = users[sub].Role
               /\ access.permissions = users[sub].Permissions
               /\ refresh.sub = sub
               /\ refresh.iss = "authkit-refresh"
               /\ proc[p].ret.RefreshToken # proc[p].arg.Token
               /\ proc[p].ret.RefreshToken \in IssuedTokens
               /\ proc[p].ret.AccessToken \in IssuedTokens

\* a refresh token minted while the user had role "user" was refreshed after
\* UpdateUser: the new access token carries the new role and permissions
C14_Witness ==
    \E p \in Procs, i \in issued :
        /\ Refreshed(p)
        /\ proc[p].ret.err = Nil
        /\ i.kind = "refresh"
        /\ proc[p].arg.Token = i.tok
        /\ i.user.Role = "user"
        /\ Payload(proc[p].ret.AccessToken).role = "admin"
        /\ Payload(proc[p].ret.AccessToken).permissions # i.user.Permissions

\* the issued refresh tokens on which a RefreshToken call has succeeded
Used == {j \in issued : j.kind = "refreshed"}

\* C15: a refresh token on which RefreshToken has succeeded, however often,
\* is accepted again by every RefreshToken call made before the token's
\* expiry while its subject is in the directory.
C15_RefreshReusable ==
    \A j \in Used :
        /\ (now < DateTicks(Payload(j.tok).exp) /\ Subject(j.tok) \in DOMAIN users)
              => RefreshParse(j.tok, now).err = Nil
        /\ \A p \in Procs :
              ( /\ Refreshed(p)
                /\ proc[p].arg.Token = j.tok
                /\ proc[p].ret.at < DateTicks(Payload(j.tok).exp)
                /\ Subject(j.tok) \in DOMAIN users )
              => proc[p].ret.err = Nil

\* RefreshToken succeeded twice on one issued refresh token
C15_Witness ==
    \E j1 \in Used, j2 \in Used, i \in issued :
        /\ i.kind = "refresh"
        /\ j1.tok = i.tok
        /\ j2.tok = i.tok
        /\ j1.new # j2.new

---------------------------------------------------------------------------
(* Claims about LoginUser and the lifetimes *)

\* the password from which the stored hash of a record was made
HashedFrom(user) == user.Password.digest[1]

\* p leaves LoginUser in this step
LoginReturns(p) ==
    /\ proc[p].op = "LoginUser"
    /\ proc[p].pc = "rlocked"
    /\ proc'[p].pc = "idle"

\* C16: LoginUser returns ErrUserNotFound when no live record has the
\* email, ErrInvalidPassword when a record has it and the password is not
\* the one its hash was made from, and otherwise a TokenResponse with both
\* tokens, TokenType "Bearer" and the public view of the record; tokens are
\* never returned for a password that does not verify.
C16_LoginOutcomes ==
    [][\A p \in Procs :
          LoginReturns(p) =>
             LET req == proc[p].arg
                 ids == {id \in DOMAIN users : users[id].Email = req.Email}
                 ok  == {id \in ids : HashedFrom(users[id]) = req.Password}
                 ret == proc'[p].ret
             IN  /\ ids = {} => ret = [err |-> ErrUserNotFound]
                 /\ (ids # {} /\ ok = {}) => ret = [err |-> ErrInvalidPassword]
                 /\ ok # {} =>
                       /\ ret.err = Nil
                       /\ ret.AccessToken.parts = 3
                       /\ ret.RefreshToken.parts = 3
                       /\ ret.AccessToken \in IssuedTokens'
                       /\ ret.RefreshToken \in IssuedTokens'
                       /\ ret.TokenType = "Bearer"
                       /\ \E id \in ok : ret.User = userToUserInfo(users[id])
                 /\ ok = {} => issued' = issued]_vars

\* one caller was refused for a wrong password and another was given tokens
\* for the same email
C16_Witness ==
    \E p \in Procs, q \in Procs :
        /\ Failed(p, ErrInvalidPassword)
        /\ proc[p].op = "LoginUser"
        /\ Succeeded(q)
        /\ proc[q].op = "LoginUser"
        /\ proc[q].arg.Email = proc[p].arg.Email
        /\ proc[q].arg.Password # proc[p].arg.Password
        /\ proc[q].ret.TokenType = "Bearer"

\* the lifetime in seconds that a token string carries
Lifetime(tok) == Payload(tok).exp - Payload(tok).iat

\* p's last call was LoginUser or RefreshToken and returned a TokenResponse
GotTokens(p) ==
    /\ proc[p].pc = "idle"
    /\ proc[p].op \in {"LoginUser", "RefreshToken"}
    /\ proc[p].ret.err = Nil

\* C17: the ExpiresIn of every TokenResponse is the lifetime of the access
\* token in the same response, whatever the TokenExpiry string, and is
\* 86400 under the default.
C17_ExpiresInIsLifetime ==
    \A p \in Procs :
        GotTokens(p)
        => /\ proc[p].ret.ExpiresIn = Lifetime(proc[p].ret.AccessToken)
           /\ config.TokenExpiry = <<24, "h">> => proc[p].ret.ExpiresIn = 86400

DayInSeconds == 24 * 3600

\* C18: with a TokenExpiry (RefreshExpiry) that time.ParseDuration refuses,
\* LoginUser with the right password still succeeds, and every access token
\* minted lives 24 hours (every refresh token 7 days).
C18_FallbackLifetimes ==
    /\ \A i \in issued :
          /\ (i.kind = "access" /\ ParseDuration(config.TokenExpiry).err # Nil)
                => Lifetime(i.tok) = DayInSeconds
          /\ (i.kind = "refresh" /\ ParseDuration(config.RefreshExpiry).err # Nil)
                => Lifetime(i.tok) = 7 * DayInSeconds
    /\ \A p \in Procs :
          ( /\ proc[p].pc = "idle"
            /\ proc[p].op = "LoginUser"
            /\ \E id \in DOMAIN users :
                  /\ users[id].Email = proc[p].arg.Email
                  /\ HashedFrom(users[id]) = proc[p].arg.Password )
          => proc[p].ret.err = Nil

\* under TokenExpiry "1d" and the default RefreshExpiry "7d" a login was
\* answered with tokens of 24 hours and of 7 days
C18_Witness ==
    \E p \in Procs :
        /\ GotTokens(p)
        /\ proc[p].op = "LoginUser"
        /\ config.TokenExpiry = <<1, "d">>
        /\ config.RefreshExpiry = <<7, "d">>
        /\ Lifetime(proc[p].ret.AccessToken) = DayInSeconds
        /\ Lifetime(proc[p].ret.RefreshToken) = 7 * DayInSeconds

\* C19: under a RefreshExpiry of n days, written with the day suffix, every
\* refresh token expires n days after its issuance.
C19_RefreshLifetimeInDays ==
    \A i \in issued :
        ( /\ i.kind = "refresh"
          /\ Len(config.RefreshExpiry) = 2
          /\ config.RefreshExpiry[2] = "d" )
        => Lifetime(i.tok) = config.RefreshExpiry[1] * DayInSeconds

---------------------------------------------------------------------------
(* Claims about the record RegisterUser stores *)

\* p leaves RegisterUser with success in this step
RegisterSucceeds(p) ==
    /\ proc[p].op = "RegisterUser"
    /\ proc[p].pc = "locked"
    /\ proc'[p].pc = "idle"
    /\ proc'[p].ret.err = Nil

\* C20: a successful RegisterUser adds one record: its role is the requested
\* one, or "user" for an empty request role, EmailVerified is the negation
\* of config.EmailRequired, the permission list is empty, and the value
\* returned is the public view of that record.
C20_RegisteredRecord ==
    [][\A p \in Procs :
          RegisterSucceeds(p) =>
             LET req == proc[p].arg
                 new == DOMAIN users' \ DOMAIN users
             IN  /\ Cardinality(new) = 1
                 /\ \A id \in DOMAIN users : users'[id] = users[id]
                 /\ \A id \in new :
                       LET u == users'[id]
                       IN  /\ u.ID = id
                           /\ u.Email = req.Email
                           /\ u.Name = req.Name
                           /\ req.Role = "" => u.Role = "user"
                           /\ req.Role # "" => u.Role = req.Role
                           /\ u.EmailVerified = ~config.EmailRequired
                           /\ u.Permissions = << >>
                           /\ proc'[p].ret.User =
                                 [ID            |-> id,
                                  Email         |-> u.Email,
                                  Name          |-> u.Name,
                                  Role          |-> u.Role,
                                  Permissions   |-> u.Permissions,
                                  EmailVerified |-> u.EmailVerified,
                                  Metadata      |-> u.Metadata]]_vars

\* under EmailRequired, one caller registered with no role and another as
\* "admin": both records are unverified, with roles "user" and "admin"
C20_Witness ==
    \E p \in Procs, q \in Procs :
        /\ config.EmailRequired
        /\ Succeeded(p) /\ proc[p].op = "RegisterUser"
        /\ Succeeded(q) /\ proc[q].op = "RegisterUser"
        /\ proc[p].arg.Role = "" /\ proc[p].ret.User.Role = "user"
        /\ proc[q].arg.Role = "admin" /\ proc[q].ret.User.Role = "admin"
        /\ ~proc[p].ret.User.EmailVerified
        /\ ~users[proc[q].ret.User.ID].EmailVerified

---------------------------------------------------------------------------
(* Claims about UpdateUser and DeleteUser *)

\* p leaves UpdateUser in this step
UpdateReturns(p) ==
    /\ proc[p].op = "UpdateUser"
    /\ proc[p].pc = "locked"
    /\ proc'[p].pc = "idle"

\* C21: UpdateUser(id, updates) on a live id leaves the record's ID, Email,
\* password hash, EmailVerified and CreatedAt as they were, whatever keys
\* the map has, and leaves every other record as it was; on an unknown id it
\* returns ErrUserNotFound and the directory is unchanged.
C21_UpdateFrame ==
    [][\A p \in Procs :
          UpdateReturns(p) =>
             LET id == proc[p].arg.ID
             IN  IF id \in DOMAIN users
                 THEN /\ proc'[p].ret.err = Nil
                      /\ DOMAIN users' = DOMAIN users
                      /\ \A other \in DOMAIN users \ {id} : users'[other] = users[other]
                      /\ users'[id].ID = users[id].ID
                      /\ users'[id].Email = users[id].Email
                      /\ users'[id].Password = users[id].Password
                      /\ users'[id].EmailVerified = users[id].EmailVerified
                      /\ users'[id].CreatedAt = users[id].CreatedAt
                 ELSE /\ proc'[p].ret = [err |-> ErrUserNotFound]
                      /\ users' = users]_vars

\* an UpdateUser whose map had the keys id, email, password, created_at and
\* email_verified succeeded, and the record has none of the map's values
C21_Witness ==
    \E p \in Procs :
        /\ Succeeded(p)
        /\ proc[p].op = "UpdateUser"
        /\ {"id", "email", "password", "created_at"} \subseteq DOMAIN proc[p].arg.Updates
        /\ proc[p].arg.ID \in DOMAIN users
        /\ users[proc[p].arg.ID].Email # proc[p].arg.Updates.email.v
        /\ HashedFrom(users[proc[p].arg.ID]) # proc[p].arg.Updates.password.v
        /\ proc[p].ret.User.ID = proc[p].arg.ID

\* p leaves DeleteUser in this step
DeleteReturns(p) ==
    /\ proc[p].op = "DeleteUser"
    /\ proc[p].pc = "locked"
    /\ proc'[p].pc = "idle"

\* p makes a GetUserByID call in this step
LooksUpByID(p) ==
    /\ proc'[p] # proc[p]
    /\ proc'[p].op = "GetUserByID"
    /\ proc'[p].pc = "idle"

\* C22: DeleteUser on a live id removes that record and no other; an id that
\* has been handed out and is not live never becomes live again, whatever
\* follows, so GetUserByID on it returns ErrUserNotFound; DeleteUser on an
\* id that is not live returns ErrUserNotFound and changes nothing.
C22_DeleteIsFinal ==
    [][/\ \A id \in KnownIds : id \notin DOMAIN users => id \notin DOMAIN users'
       /\ \A p \in Procs :
             DeleteReturns(p) =>
                LET id == proc[p].arg.ID
                IN  IF id \in DOMAIN users
                    THEN /\ proc'[p].ret = [err |-> Nil]
                         /\ DOMAIN users' = DOMAIN users \ {id}
                         /\ \A other \in DOMAIN users' : users'[other] = users[other]
                    ELSE /\ proc'[p].ret = [err |-> ErrUserNotFound]
                         /\ users' = users
       /\ \A p \in Procs :
             (LooksUpByID(p) /\ proc'[p].arg.ID \notin DOMAIN users)
             => proc'[p].ret = [err |-> ErrUserNotFound]]_vars

\* a record was deleted, its email was registered again under a new id, and
\* GetUserByID on the old id returned ErrUserNotFound
C22_Witness ==
    \E p \in Procs, q \in Procs, id \in DOMAIN users :
        /\ Succeeded(p)
        /\ proc[p].op = "DeleteUser"
        /\ Failed(q, ErrUserNotFound)
        /\ proc[q].op = "GetUserByID"
        /\ proc[q].arg.ID = proc[p].arg.ID
        /\ id > proc[p].arg.ID
        /\ users[id].Email = "a@x"
        /\ IdsByEmail("a@x") = {id}

---------------------------------------------------------------------------
(* Claims about what crosses the boundary of the directory *)

\* the value carries a password hash
HasHash(v) == "Password" \in DOMAIN v

\* C23: no value returned by a public operation carries a password hash,
\* and no issued token carries one.
C23_HashStaysInside ==
    /\ \A p \in Procs :
          proc[p].pc = "idle" =>
             /\ ~HasHash(proc[p].ret)
             /\ "User" \in DOMAIN proc[p].ret => ~HasHash(proc[p].ret.User)
             /\ "Users" \in DOMAIN proc[p].ret => \A u \in proc[p].ret.Users : ~HasHash(u)
    /\ \A tok \in IssuedTokens :
          /\ "password" \notin DOMAIN Payload(tok)
          /\ "Password" \notin DOMAIN Payload(tok)

\* C24: a field of a live record changes only in a step that leaves
\* UpdateUser on that record, taken by the holder of the write lock.
C24_OnlyUpdateWrites ==
    [][\A id \in DOMAIN users \cap DOMAIN users' :
          users'[id] # users[id]
          => \E p \in Procs :
                /\ UpdateReturns(p)
                /\ proc[p].arg.ID = id
                /\ mutex.w = p]_vars

---------------------------------------------------------------------------
(* Claims about concurrency *)

\* p mints in this step
MintStep(p) == proc[p].pc = "found" /\ proc'[p].pc = "idle"

\* the records of id between which a concurrent read may choose: the one
\* before and the ones after the updates in progress
WholeRecords(id) ==
    {users[id]} \cup {ApplyUpdates(users[id], proc[q].arg.Updates, now) : q \in Writers(id)}

\* C25: the access token RefreshToken mints for a live user carries the
\* email, role and permissions of the record entirely before or entirely
\* after an UpdateUser that runs at the same time.
C25_NoTornRead ==
    [][\A p \in Procs :
          (MintStep(p) /\ proc[p].user \in DOMAIN users)
          => \E rec \in WholeRecords(proc[p].user) :
                LET c == Payload(proc'[p].ret.AccessToken)
                IN  /\ c.email = rec.Email
                    /\ c.role = rec.Role
                    /\ c.permissions = rec.Permissions]_vars

\* C26: the step in which RegisterUser computes the hash it stores is not
\* taken by the holder of the write lock, and the step in which LoginUser
\* compares the password (and signs the tokens) is not taken by a holder of
\* the read lock.
C26_NoCryptoUnderLock ==
    [][\A p \in Procs :
          /\ RegisterSucceeds(p) => mutex.w # p
          /\ (LoginReturns(p) /\ proc'[p].ret.err # ErrUserNotFound)
             => p \notin mutex.r]_vars

---------------------------------------------------------------------------
(* Claims about custom tokens *)

\* entry i of the history is a custom token whose claim map sets "role" to
\* a string and sets neither exp nor nbf
RoleToken(i) ==
    /\ i.kind = "custom"
    /\ "role" \in DOMAIN i.claims
    /\ i.claims["role"].t = "string"
    /\ DOMAIN i.claims \cap {"exp", "nbf"} = {}

\* the claim map of entry i leaves the subject alone and gives every member
\* that Claims decodes in a JSON form that Claims takes
Decodable(i) ==
    /\ "user_id" \notin DOMAIN i.claims
    /\ \A k \in DOMAIN i.claims \cap DOMAIN ClaimsJSON :
          \/ i.claims[k].t = ClaimsJSON[k]
          \/ k = "aud" /\ i.claims[k].t = "string"

\* p's last call was ValidateToken on the token of entry i
ValidatedEntry(p, i) == Validated(p) /\ proc[p].arg.Token = i.tok

\* that call succeeded and gave the role of i's claim map and i's subject
RoundTrip(p, i) ==
    /\ proc[p].ret.err = Nil
    /\ proc[p].ret.claims.Role = i.claims["role"].v
    /\ proc[p].ret.claims.UserID = i.subject

\* C27: ValidateToken on a custom token whose claim map sets "role" to a
\* string r, sets none of exp, nbf and user_id and gives the members that
\* Claims decodes in their JSON form, applied before the whole second that
\* issue time plus ttl is cut down to, succeeds with Role r and UserID the
\* subject id.
C27_CustomRoundTrip ==
    \A p \in Procs, i \in issued :
        ( /\ RoleToken(i)
          /\ Decodable(i)
          /\ ValidatedEntry(p, i)
          /\ proc[p].ret.at < DateTicks(NewNumericDate(i.at + i.expiry)) )
        => RoundTrip(p, i)

\* a custom token that was validated in the half second it was made in,
\* and gave its role back
C27_Witness ==
    \E p \in Procs, i \in issued :
        /\ RoleToken(i)
        /\ Decodable(i)
        /\ ValidatedEntry(p, i)
        /\ proc[p].ret.at = i.at
        /\ i.at % TicksPerSecond # 0
        /\ RoundTrip(p, i)

\* C27 as the specification words it: for every claim map that sets "role"
\* to a string and sets neither exp nor nbf, ValidateToken within the ttl
\* succeeds with that role and the subject id.
C27_AsStated ==
    \A p \in Procs, i \in issued :
        ( /\ RoleToken(i)
          /\ ValidatedEntry(p, i)
          /\ proc[p].ret.at < i.at + i.expiry )
        => RoundTrip(p, i)

\* member k of a payload, with its JSON form
Member(payload, k) ==
    IF k \in DOMAIN Rest(payload) THEN Rest(payload)[k]
    ELSE [t |-> ClaimsJSON[k], v |-> payload[k]]

\* the members of a payload
Members(payload) == (DOMAIN payload \ {"rest"}) \cup DOMAIN Rest(payload)

\* the required members that GenerateCustomToken derives from its arguments
\* and the clock when entry i was made
RequiredOf(i) ==
    [user_id |-> Str(i.subject),
     iss     |-> Str("authkit"),
     aud     |-> Str("authkit-users"),
     iat     |-> Num(NewNumericDate(i.at)),
     exp     |-> Num(NewNumericDate(i.at + i.expiry)),
     nbf     |-> Num(NewNumericDate(i.at))]

\* C28: the payload of a custom token has the caller's value for every key
\* of the caller's map, also for jti, user_id, iss, aud, iat, exp and nbf;
\* the required keys that the caller's map lacks have the generated values
\* (jti a drawn identifier), and the payload has no other member.
C28_CallerValuesWin ==
    \A i \in issued :
        i.kind = "custom"
        => LET payload == Payload(i.tok)
           IN  /\ Members(payload) = DOMAIN i.claims \cup DOMAIN RequiredOf(i) \cup {"jti"}
               /\ \A k \in DOMAIN i.claims : Member(payload, k) = i.claims[k]
               /\ \A k \in DOMAIN RequiredOf(i) \ DOMAIN i.claims :
                     Member(payload, k) = RequiredOf(i)[k]
               /\ "jti" \notin DOMAIN i.claims
                  => /\ Member(payload, "jti").t = "string"
                     /\ Member(payload, "jti").v \in 1..entropy

\* custom tokens whose maps replaced the token id, the subject and the
\* expiry
C28_Witness ==
    /\ \E i \in issued : i.kind = "custom" /\ "jti" \in DOMAIN i.claims
    /\ \E p \in Procs :
          /\ proc[p].op = "GenerateCustomToken"
          /\ DOMAIN proc[p].arg.Claims \cap {"user_id", "exp"} # {}
          /\ \A k \in DOMAIN proc[p].arg.Claims :
                Member(Payload(proc[p].ret.Token), k) = proc[p].arg.Claims[k]

---------------------------------------------------------------------------
(* Claims about token identifiers *)

\* every token string handed out so far
AllTokens ==
    {i.tok : i \in {j \in issued : j.kind \in {"access", "refresh", "custom"}}}

\* the token strings p hands out in this step
NewTokens(p) ==
    IF entropy' = entropy \/ proc'[p].pc # "idle" THEN {}
    ELSE IF proc'[p].op = "GenerateCustomToken" /\ budget' # budget
         THEN {proc'[p].ret.Token}
    ELSE IF proc[p].pc \in {"rlocked", "found"} /\ proc'[p].ret.err = Nil
         THEN {proc'[p].ret.AccessToken, proc'[p].ret.RefreshToken}
    ELSE {}

\* p's step is a GenerateCustomToken whose claim map sets the token id
SetsJti(p) ==
    /\ proc'[p].op = "GenerateCustomToken"
    /\ "jti" \in DOMAIN proc'[p].arg.Claims

---------------------------------------------------------------------------
(* Claims about the password functions *)

\* p's last call was a hashing function
HashCalled(p) == proc[p].pc = "idle" /\ proc[p].op \in {"HashPassword", "HashPasswordStatic"}

\* p's last call was a comparing function, on the hash of entry i
Compared(p, i) ==
    /\ proc[p].pc = "idle"
    /\ proc[p].op \in {"ComparePassword", "ComparePasswordStatic"}
    /\ i.kind = "hash"
    /\ proc[p].arg.Hash = i.hash

\* the hash that p's step hands out
NewHashes(p) ==
    IF entropy' # entropy /\ proc'[p].op \in {"HashPassword", "HashPasswordStatic"}
       /\ proc'[p].ret.err = Nil
    THEN {proc'[p].ret.Hash}
    ELSE {}

\* C30: with a supported cost every hashing call gives a hash, a comparison
\* of a hash with a password is true exactly when the password is the one
\* the hash was made from, and every hash differs from the hashes made
\* before, also from those of the same password.
C30_HashVerifies ==
    /\ [](\A p \in Procs :
            /\ HashCalled(p) => proc[p].ret.err = Nil
            /\ \A i \in issued :
                  Compared(p, i) => (proc[p].ret.ok <=> proc[p].arg.Password = i.password))
    /\ [][\A p \in Procs : NewHashes(p) \cap Hashes = {}]_vars

\* the cost that p's hashing call asks for: the configured one, or the
\* argument, with 12 for an argument of 0
AskedCost(p) ==
    IF proc[p].op = "HashPassword" THEN config.BCryptCost
    ELSE IF proc[p].arg.Cost = 0 THEN 12 ELSE proc[p].arg.Cost

\* C31: a hashing call whose cost is below the minimum or above the maximum
\* of bcrypt fails, and a hash that is made has the cost that was asked for
\* (12 when HashPasswordStatic is given 0).
C31_RejectsOutOfRange ==
    \A p \in Procs :
        HashCalled(p)
        => /\ AskedCost(p) \notin BcryptCost.Min..BcryptCost.Max => proc[p].ret.err # Nil
           /\ proc[p].ret.err = Nil => proc[p].ret.Hash.cost = AskedCost(p)

---------------------------------------------------------------------------
(* Claims about the HTTP boundary *)

\* p's login request was answered after LoginUser failed with error e
LoginFailed(p, e) ==
    proc[p].pc = "idle" /\ proc[p].op = "LoginUser" /\ proc[p].ret.err = e

\* C32: a login that fails with ErrUserNotFound and one that fails with
\* ErrInvalidPassword are answered with the same status code and the same
\* body, by LoginHandler and by LoginHandlerFiber.
C32_UniformLoginFailure ==
    \A p, q \in Procs :
        (LoginFailed(p, ErrUserNotFound) /\ LoginFailed(q, ErrInvalidPassword))
        => /\ LoginHandler(proc[p].ret) = LoginHandler(proc[q].ret)
           /\ LoginHandlerFiber(proc[p].ret) = LoginHandlerFiber(proc[q].ret)

---------------------------------------------------------------------------
(* Claims about the command line *)

\* an earlier run registered the email and password of request r
RegisteredBefore(r) ==
    \E i \in issued : /\ i.kind = "cli"
                      /\ i.email = r.Email
                      /\ i.password = r.Password

\* C33: after a successful `authkit user register`, a later `authkit user
\* login` with the same secret, email and password succeeds with an access
\* and a refresh token, and a later `authkit user list` lists the user.
C33_CLIWorkflow ==
    \A p \in Procs :
        /\ (proc[p].pc = "idle" /\ proc[p].op = "LoginUser" /\ RegisteredBefore(proc[p].arg))
           => /\ proc[p].ret.err = Nil
              /\ proc[p].ret.AccessToken \in IssuedTokens
              /\ proc[p].ret.RefreshToken \in IssuedTokens
        /\ (proc[p].pc = "idle" /\ proc[p].op = "ListUsers")
           => \A i \in issued :
                 i.kind = "cli" => \E u \in proc[p].ret.Users : u.Email = i.email

---------------------------------------------------------------------------
(* Claims about the HTTP middlewares *)

\* p has made a request and has its answer
Requested(p) == proc[p].pc = "idle" /\ proc[p].op \in {"GinRequest", "FiberRequest"}

\* what ValidateToken says of the token of p's request at the time of it
TokenVerdict(p) == ValidateToken(proc[p].arg.header.token, proc[p].ret.at)

\* the header of p's request is "Bearer " and a token ValidateToken accepts
GoodBearer(p) ==
    /\ proc[p].arg.header.prefix = "Bearer "
    /\ TokenVerdict(p).err = Nil

\* C34: the authentication middleware passes a request on only if its
\* Authorization header is "Bearer " followed by a token that ValidateToken
\* accepts, and then user_id, user_email, user_role and user_permissions of
\* the context are the token's claims; otherwise it answers 401 and no
\* later handler of the chain runs.
C34_AuthenticationMiddleware ==
    \A p \in Procs :
        (Requested(p) /\ proc[p].arg.auth) =>
            LET mw == proc[p].ret.mw
            IN  /\ mw.next <=> GoodBearer(p)
                /\ mw.next =>
                      /\ mw.keys.user_id.v = TokenVerdict(p).claims.UserID
                      /\ mw.keys.user_email.v = TokenVerdict(p).claims.Email
                      /\ mw.keys.user_role.v = TokenVerdict(p).claims.Role
                      /\ mw.keys.user_permissions.v = TokenVerdict(p).claims.Permissions
                /\ ~mw.next =>
                      /\ mw.status = 401
                      /\ proc[p].ret.out = mw

\* a request with the token of an admin was passed on, and the token has
\* expired since
C34_Witness ==
    /\ \E p \in Procs :
          /\ Requested(p) /\ proc[p].arg.auth /\ proc[p].ret.mw.next
          /\ proc[p].ret.mw.keys.user_role.v = "admin"
          /\ now > proc[p].ret.at + TicksPerSecond
          /\ ~ValidateToken(proc[p].arg.header.token, now).err = Nil

\* the guard of p's request is satisfied by the claims c
Satisfied(guard, c) ==
    CASE guard.kind = "role"       -> c.Role = guard.role
      [] guard.kind = "roles"      -> c.Role \in guard.roles
      [] guard.kind = "permission" ->
             \E i \in DOMAIN c.Permissions : c.Permissions[i] = guard.permission
      [] OTHER                     -> TRUE

\* C35: RequireRole(r) passes the request on iff the role of the token's
\* claims is r, RequireRoles(rs) iff it is in rs, RequirePermission(p) iff p
\* is in the claims' permissions; otherwise the answer is 403, or 401 when
\* no authenticated user is in the context, and the next handler is not run.
C35_AuthorizationMiddlewares ==
    \A p \in Procs :
        (Requested(p) /\ proc[p].arg.guard.kind # "none") =>
            LET out == proc[p].ret.out
            IN  /\ proc[p].arg.auth /\ proc[p].ret.mw.next =>
                      /\ out.next <=> Satisfied(proc[p].arg.guard, TokenVerdict(p).claims)
                      /\ ~out.next => out.status = 403
                /\ ~proc[p].arg.auth => ~out.next /\ out.status = 401
                /\ ~proc[p].ret.mw.next => ~out.next

\* a user whose token says "user" with permission "read" was let through
\* RequirePermission("read")
C35_Witness ==
    \E p \in Procs :
        /\ Requested(p)
        /\ proc[p].arg.guard.kind = "permission" /\ proc[p].ret.out.next
        /\ proc[p].ret.mw.keys.user_role.v = "user"

---------------------------------------------------------------------------
(* Claims about the profile endpoint *)

\* C36: a user registered with role "user" who only logs in, refreshes and
\* sends PUT /profile with their own tokens keeps the role "user" in their
\* record and in every access token issued to them, and is never passed on
\* by RequireRole("admin").
C36_NoSelfEscalation ==
    /\ \A id \in DOMAIN users : users[id].Role = "user"
    /\ \A i \in issued :
          i.kind = "access" => DecodeSegment(i.tok.payload).role = "user"
    /\ \A p \in Procs :
          (Requested(p) /\ proc[p].arg.guard.kind = "role")
              => ~proc[p].ret.out.next

---------------------------------------------------------------------------
(* Claims about what UpdateUser ignores *)

\* the entry of updates under key k has the type ty
WellTyped(updates, k, ty) == k \in DOMAIN updates /\ updates[k].t = ty

\* C37: an entry of the updates map whose key is none of name, role,
\* permissions, metadata, or whose value is not of the field's type, is
\* ignored: the field keeps its value, the call succeeds, and UpdatedAt is
\* stamped.
C37_IgnoredEntries ==
    [][\A p \in Procs :
          (UpdateReturns(p) /\ proc[p].arg.ID \in DOMAIN users) =>
             LET id == proc[p].arg.ID
                 u  == proc[p].arg.Updates
             IN  /\ proc'[p].ret.err = Nil
                 /\ users'[id].UpdatedAt = now
                 /\ ~WellTyped(u, "name", "string") => users'[id].Name = users[id].Name
                 /\ ~WellTyped(u, "role", "string") => users'[id].Role = users[id].Role
                 /\ ~WellTyped(u, "permissions", "[]string")
                       => users'[id].Permissions = users[id].Permissions
                 /\ ~WellTyped(u, "metadata", "map")
                       => users'[id].Metadata = users[id].Metadata
                 /\ WellTyped(u, "name", "string") => users'[id].Name = u.name.v
                 /\ WellTyped(u, "role", "string") => users'[id].Role = u.role.v]_vars

\* an update with a role that is no string and a key UpdateUser does not
\* know succeeded some time after the registration: the name is the map's,
\* the role is the old one, UpdatedAt is later than CreatedAt
C37_Witness ==
    \E p \in Procs :
        /\ Succeeded(p)
        /\ proc[p].op = "UpdateUser"
        /\ "nickname" \in DOMAIN proc[p].arg.Updates
        /\ proc[p].arg.Updates.role.t # "string"
        /\ users[proc[p].arg.ID].Role = "user"
        /\ users[proc[p].arg.ID].Name = "Bob"
        /\ users[proc[p].arg.ID].UpdatedAt > users[proc[p].arg.ID].CreatedAt

---------------------------------------------------------------------------
(* Claims about what the operations leave alone *)

FrameOps ==
    {"LoginUser", "RefreshToken", "ValidateToken", "GenerateAccessToken",
     "GenerateRefreshToken", "GenerateCustomToken", "GetUserByID",
     "GetUserByEmail", "ListUsers"}

\* p takes a step of the operation op
StepOf(p, ops) == proc'[p] # proc[p] /\ proc'[p].op \in ops

\* C38: LoginUser, RefreshToken, ValidateToken, GenerateAccessToken,
\* GenerateRefreshToken, GenerateCustomToken, GetUserByID, GetUserByEmail and
\* ListUsers leave the directory and the configuration as they were, whether
\* they succeed or fail; the directory changes only in a step of
\* RegisterUser, UpdateUser or DeleteUser.
C38_ReadOnlyOperations ==
    [][/\ \A p \in Procs :
             StepOf(p, FrameOps) => users' = users /\ config' = config
       /\ (users' # users \/ config' # config)
             => \E p \in Procs : StepOf(p, {"RegisterUser", "UpdateUser", "DeleteUser"})]_vars

\* a RefreshToken call has answered with a new pair, and the directory
\* holds the record as the registration made it
C38_Witness ==
    \E p \in Procs :
        /\ Succeeded(p)
        /\ proc[p].op = "RefreshToken"
        /\ \E id \in DOMAIN users : users[id].UpdatedAt = users[id].CreatedAt
        /\ Cardinality(IssuedTokens) = 4

---------------------------------------------------------------------------
(* Claims about the lock *)

\* p holds the directory lock, for writing or for reading
Holds(p) == mutex.w = p \/ p \in mutex.r

\* p has reached a call that has not returned
InCall(p) == proc[p].pc \in {"call", "locked", "rlocked", "parsed", "found"}

\* every step of a caller that holds the lock gives it back, no caller takes
\* the lock while it holds it, and RefreshToken holds nothing on its way to
\* and from GetUserByID
NoReentry ==
    \A p \in Procs :
        /\ (Holds(p) /\ proc'[p] # proc[p]) => (mutex'.w # p /\ p \notin mutex'.r)
        /\ (mutex'.w = p /\ mutex.w # p) => p \notin mutex.r
        /\ (p \in mutex'.r /\ p \notin mutex.r) => mutex.w # p
        /\ proc[p].pc \in {"idle", "call", "parsed", "found"} => ~Holds(p)

\* C39: no operation takes the directory lock while it holds it or holds it
\* across a call that takes it, and under fair scheduling every call to
\* RegisterUser, LoginUser, RefreshToken, GetUserByID, GetUserByEmail,
\* UpdateUser, DeleteUser and ListUsers gives the lock back and returns,
\* however many callers there are.
C39_NoDeadlock ==
    /\ [][NoReentry]_vars
    /\ \A p \in Procs : InCall(p) ~> (proc[p].pc = "idle" /\ ~Holds(p))

\* a caller is inside UpdateUser with the lock while another has reached a
\* LoginUser call and waits for it, after the registration has returned
C39_Witness ==
    \E p, q \in Procs :
        /\ proc[p].pc = "locked" /\ proc[p].op = "UpdateUser"
        /\ proc[q].pc = "call" /\ proc[q].op = "LoginUser"
        /\ users # << >>
        /\ budget = 0

=============================================================================
